---- MODULE Spec2Model ----
(***************************************************************************)
(* A state-machine model of the vmaze game core: PhaseManager,             *)
(* AudioManager (music channel), TokenManager, MonsterManager, Player,     *)
(* Maze and the Game orchestrator.                                         *)
(*                                                                         *)
(* Ten specifications share the definitions below:                         *)
(*   SpecPhase  PhaseManager driven through its public methods with        *)
(*              arbitrary non-negative arguments;                          *)
(*   Spec       the Game orchestrator: frames, pause, caught, reset,       *)
(*              portal, timers and asynchronous loads.  Positions are not  *)
(*              carried here: each distance test of a frame reads a        *)
(*              distance drawn from a set that straddles its threshold;    *)
(*   SpecMove   the geometry: fixed-point positions of the player and the  *)
(*              strict pursuers in the 11x11 maze;                         *)
(*   SpecPlayer the Player object driven through its public methods;       *)
(*   SpecClock  the frame clock, pause and the player;                     *)
(*   SpecPursuer one frame of one strict pursuer from any wall-free place; *)
(*   SpecRun    a Normal game with a frame every ShortStep time units;     *)
(*   SpecAlert  the proximity alerts of the pursuers against the clock;    *)
(*   SpecClipy  one frame of one erratic pursuer;                          *)
(*   SpecCollide the two wall tests applied to the same inputs.            *)
(*                                                                         *)
(* Wall-clock time is counted in units of TimeUnitMs milliseconds.         *)
(***************************************************************************)
EXTENDS Integers, Sequences, FiniteSets, TLC

VARIABLES
    pm,      \* PhaseManager fields
    am,      \* AudioManager fields (music channel, loaded buffers)
    tm,      \* TokenManager fields
    mm,      \* MonsterManager fields
    gm,      \* Game fields
    sched,   \* the host's event loop: pending timeouts, loads, frame clock
    hist,    \* observations of calls made on the UI shell and the audio sink
    mv       \* geometry: player and pursuer positions (SpecMove)

vars == <<pm, am, tm, mm, gm, sched, hist, mv>>

Min(a, b) == IF a < b THEN a ELSE b
Max(a, b) == IF a > b THEN a ELSE b

(***************************************************************************)
(* Program constants.                                                      *)
(***************************************************************************)
maxScore == 420
PointsPerToken == 10
StageInterval == 50
SurvivalBonus == 50
SurvivalPhaseSeconds == 84
LatchDelayMs == 500
totalTokenCount == 42
InitialMonsterCount == 3
ImpossibleMinMs == 3000
ImpossibleSpanMs == 5000

(***************************************************************************)
(* Model units and bounds.                                                 *)
(***************************************************************************)
TimeUnitMs == LatchDelayMs
\* the survival countdown, the latch delay and the dead-man's-switch range
\* in time units
SurvivalUnits == (SurvivalPhaseSeconds * 1000) \div TimeUnitMs
LatchUnits == LatchDelayMs \div TimeUnitMs
ImpossibleMinUnits == ImpossibleMinMs \div TimeUnitMs
ImpossibleMaxUnits == (ImpossibleMinMs + ImpossibleSpanMs) \div TimeUnitMs

\* the clock is observed FrameStep units after the last observation (Spec),
\* LongStep units after it (SpecPhase), and whenever a timeout is due
FrameStep == 28
LongStep == 60
\* the time since construction is counted up to here
UptimeCap == ImpossibleMaxUnits + 1
\* pending latch-release timeouts kept at once
MaxLatchTimers == 1
\* by how much a score argument may exceed maxScore
ExtraPoints == 1
PointArgs == {0, SurvivalBonus, maxScore + ExtraPoints}
\* observation counters saturate here
CountCap == 2

Bump(n) == Min(CountCap, n + 1)

(***************************************************************************)
(* The world: the objects' fields as one record, threaded through the      *)
(* methods in call order.                                                  *)
(***************************************************************************)
\* hist.catchCue, dialogs, catchers, portalDist and event (which handler ran:
\* a frame's body, a skipped frame, a completion, a reset, the forced catch,
\* a model load's then-callback, an advance of the clock) describe the step
\* being taken, so every step starts with them cleared.  hist.exited,
\* exitFrom and exitTo say whether endSurvivalPhase ran its body in this step
\* and give the score before and after its bonus; hist.order lists the
\* blocks of update() that the step's frame ran.  hist.pausedInPhase says
\* that wall-clock time has passed on a paused game during the current
\* survival phase.
StepHist ==
    [hist EXCEPT !.catchCue = 0, !.dialogs = 0, !.catchers = 0,
                 !.portalDist = 0, !.event = "none", !.staleActed = FALSE,
                 !.exited = FALSE, !.exitFrom = 0, !.exitTo = 0,
                 !.order = <<>>, !.teleported = 0, !.replaced = FALSE,
                 !.completedFrom = 0,
                 !.pausedInPhase = @ /\ pm.survivalPhaseActive]

World == [pm |-> pm, am |-> am, tm |-> tm, mm |-> mm, gm |-> gm,
          sched |-> sched, hist |-> StepHist]

Commit(w) ==
    /\ pm' = w.pm
    /\ am' = w.am
    /\ tm' = w.tm
    /\ mm' = w.mm
    /\ gm' = w.gm
    /\ sched' = w.sched
    /\ hist' = w.hist

(***************************************************************************)
(* AudioManager                                                            *)
(***************************************************************************)
MusicNames == {"background", "clibyBackground"}

\* playSound(name): a one-shot source.  hist.catchCue counts the requests
\* to play 'jensenCatch'; the other cues are not observed.
playSound(w, name) ==
    IF name = "jensenCatch"
    THEN [w EXCEPT !.hist.catchCue = Bump(@)]
    ELSE w

\* playBackgroundMusic(musicName, onEnd): a no-op until the context exists
\* and the buffer is loaded; otherwise detach the old source's onended,
\* stop it and start the new source; only a non-looping source keeps onEnd.
\* am.playing counts the sources that were started and have neither been
\* stopped nor played to their end; am.orphans counts the sources stopped
\* with their onended still attached (the host dispatches 'ended' to a
\* stopped source, so such a handler would run).  hist.replaced says that
\* this step stopped a playing source that had an end callback.

\* the same without "this.musicSource.onended = null"
playBackgroundMusic_noDetach(w, musicName, onEnd) ==
    IF ~w.am.audioContext \/ musicName \notin w.am.sounds
    THEN w
    ELSE LET live == w.am.musicSource # "none" /\ ~w.am.ended
             w2 == [w EXCEPT !.am.playing = IF live THEN @ - 1 ELSE @,
                             !.am.orphans =
                                 IF live /\ w.am.onended
                                 THEN Bump(@) ELSE @,
                             !.hist.replaced = @ \/ (live /\ w.am.onended)]
         IN  [w2 EXCEPT !.am.musicSource = musicName,
                        !.am.ended = FALSE,
                        !.am.playing = @ + 1,
                        !.am.onended = onEnd /\ musicName # "background",
                        !.hist.staleMusic = FALSE]

playBackgroundMusic(w, musicName, onEnd) ==
    IF ~w.am.audioContext \/ musicName \notin w.am.sounds
    THEN w
    ELSE LET live == w.am.musicSource # "none" /\ ~w.am.ended
             w1 == IF w.am.musicSource # "none"
                   THEN [w EXCEPT !.am.onended = FALSE] ELSE w
             w2 == [w1 EXCEPT !.am.playing = IF live THEN @ - 1 ELSE @,
                              !.am.orphans =
                                  IF live /\ w1.am.onended
                                  THEN Bump(@) ELSE @,
                              !.hist.replaced = @ \/ (live /\ w.am.onended)]
         IN  [w2 EXCEPT !.am.musicSource = musicName,
                        !.am.ended = FALSE,
                        !.am.playing = @ + 1,
                        !.am.onended = onEnd /\ musicName # "background",
                        !.hist.staleMusic = FALSE]

(***************************************************************************)
(* PhaseManager                                                            *)
(***************************************************************************)
\* endSurvivalPhase without its guard: every call awards and notifies again
endSurvivalPhase_unguarded(w) ==
    LET w1 == [w EXCEPT !.pm.endingSurvivalPhase = TRUE,
                        !.pm.survivalPhaseActive = FALSE,
                        !.pm.survivalElapsed = 0]
        w2 == [playBackgroundMusic(w1, "background", FALSE)
                   EXCEPT !.hist.exitMusic = Bump(@)]
        w3 == [w2 EXCEPT !.pm.score = Min(maxScore, @ + SurvivalBonus),
                         !.hist.exitBonus = Bump(@)]
        w4 == [playSound(w3, "tokenAdded1")
                   EXCEPT !.hist.exitNotify = Bump(@),
                          !.hist.exited = TRUE,
                          !.hist.exitFrom = w.pm.score,
                          !.hist.exitTo = w3.pm.score]
    IN  [w4 EXCEPT !.sched.latchTimers = Append(@, LatchUnits)]

\* endSurvivalPhase() that awards no bonus
endSurvivalPhase_noBonus(w) ==
    IF ~w.pm.survivalPhaseActive \/ w.pm.endingSurvivalPhase
    THEN w
    ELSE LET w1 == [w EXCEPT !.pm.endingSurvivalPhase = TRUE,
                             !.pm.survivalPhaseActive = FALSE,
                             !.pm.survivalElapsed = 0]
             w2 == [playBackgroundMusic(w1, "background", FALSE)
                        EXCEPT !.hist.exitMusic = Bump(@)]
             w4 == [playSound(w2, "tokenAdded1")
                        EXCEPT !.hist.exitNotify = Bump(@),
                               !.hist.exitBonus = Bump(@),
                               !.hist.exited = TRUE,
                               !.hist.exitFrom = w.pm.score,
                               !.hist.exitTo = w2.pm.score]
         IN  [w4 EXCEPT !.sched.latchTimers = Append(@, LatchUnits)]

\* endSurvivalPhase(): guarded by the active flag and the ending latch; sets
\* the latch, clears the flag, requests the base track, awards the clamped
\* bonus, notifies the UI and arms the timeout that releases the latch.
\* survivalElapsed (now - survivalPhaseStartTime) is read only while the
\* phase is active, so it is dropped to 0 here.
endSurvivalPhase(w) ==
    IF ~w.pm.survivalPhaseActive \/ w.pm.endingSurvivalPhase
    THEN w
    ELSE LET w1 == [w EXCEPT !.pm.endingSurvivalPhase = TRUE,
                             !.pm.survivalPhaseActive = FALSE,
                             !.pm.survivalElapsed = 0]
             w2 == [playBackgroundMusic(w1, "background", FALSE)
                        EXCEPT !.hist.exitMusic = Bump(@)]
             w3 == [w2 EXCEPT !.pm.score = Min(maxScore, @ + SurvivalBonus),
                              !.hist.exitBonus = Bump(@)]
             w4 == [playSound(w3, "tokenAdded1")
                        EXCEPT !.hist.exitNotify = Bump(@),
                               !.hist.exited = TRUE,
                               !.hist.exitFrom = w.pm.score,
                               !.hist.exitTo = w3.pm.score]
         IN  [w4 EXCEPT !.sched.latchTimers = Append(@, LatchUnits)]

\* startSurvivalPhase(): no-op when already active; stamps the start time,
\* requests the phase track with the natural-end callback, notifies the UI.
\* hist.phaseStarts counts the activations since the last resetGame.
startSurvivalPhase(w) ==
    IF w.pm.survivalPhaseActive
    THEN w
    ELSE LET w1 == [w EXCEPT !.pm.survivalPhaseActive = TRUE,
                             !.pm.survivalElapsed = 0,
                             !.hist.activated = TRUE,
                             !.hist.phaseStarts = Bump(@),
                             !.hist.exitBonus = 0,
                             !.hist.exitMusic = 0,
                             !.hist.exitNotify = 0]
             w2 == playBackgroundMusic(w1, "clibyBackground", TRUE)
         IN  playSound(w2, "jensenClose")

\* the onEnd closure handed to playBackgroundMusic by startSurvivalPhase
musicEndCallback(w) ==
    IF w.pm.survivalPhaseActive /\ ~w.pm.endingSurvivalPhase
    THEN endSurvivalPhase(w)
    ELSE w

\* handleStageChange that starts the phase on every stage change
PhaseManager_handleStageChange_anyStage(w) == startSurvivalPhase(w)

PhaseManager_handleStageChange(w) ==
    IF w.pm.stage = 2 THEN startSurvivalPhase(w) ELSE w

checkStageProgression(w) ==
    LET newStage == (w.pm.score \div StageInterval) + 1
    IN  IF newStage > w.pm.stage
        THEN PhaseManager_handleStageChange([w EXCEPT !.pm.stage = newStage])
        ELSE w

\* addPoints without the Math.min clamp
addPoints_unclamped(w, points) ==
    checkStageProgression([w EXCEPT !.pm.score = @ + points])

addPoints(w, points) ==
    checkStageProgression([w EXCEPT !.pm.score = Min(maxScore, @ + points)])

subtractPoints(w, points) ==
    [w EXCEPT !.pm.score = Max(0, @ - points)]

setScore(w, newScore) ==
    [w EXCEPT !.pm.score = Min(maxScore, newScore)]

\* remaining time shown to the UI: max(0, survivalPhaseTimer - elapsed)
remainingTime(w) == Max(0, SurvivalUnits - w.pm.survivalElapsed)

\* updateSurvivalPhase that exits only once remaining time is below zero
updateSurvivalPhase_strict(w) ==
    IF ~w.pm.survivalPhaseActive
    THEN w
    ELSE IF remainingTime(w) < 0 THEN endSurvivalPhase(w) ELSE w

updateSurvivalPhase(w) ==
    IF ~w.pm.survivalPhaseActive
    THEN w
    ELSE IF remainingTime(w) <= 0 THEN endSurvivalPhase(w) ELSE w

resetScore(w) == [w EXCEPT !.pm.score = 0]

resetStage(w) == [w EXCEPT !.pm.stage = 1]

\* reset() that leaves the stage alone
PhaseManager_reset_keepStage(w) ==
    LET w1 == resetScore(w)
    IN  IF w1.pm.survivalPhaseActive THEN endSurvivalPhase(w1) ELSE w1

PhaseManager_reset(w) ==
    LET w1 == resetStage(resetScore(w))
    IN  IF w1.pm.survivalPhaseActive THEN endSurvivalPhase(w1) ELSE w1

(***************************************************************************)
(* Distances are in tenths of a world unit.  A distance test of a frame    *)
(* reads a value just below its threshold or the threshold itself.         *)
(***************************************************************************)
\* MonsterManager.playerRadius 0.4 and monsterRadius 0.5
playerRadius == 4
monsterRadius == 5
CatchDistance == playerRadius + monsterRadius
PickupRadius == 12
portalRadius == 20
MonsterDists == {CatchDistance - 1, CatchDistance}
TokenDists == {PickupRadius - 1, PickupRadius}
PortalDists == {portalRadius - 1, portalRadius}

(***************************************************************************)
(* Game: caught handling                                                   *)
(***************************************************************************)
\* handlePlayerCaught(): pause, catch cue, score to zero, error dialog whose
\* acknowledgement callback resets the game.  showErrorDialog replaces an
\* overlay that is already up.
handlePlayerCaught(w) ==
    LET w1 == [w EXCEPT !.gm.isPaused = TRUE]
        w2 == playSound(w1, "jensenCatch")
        w3 == resetScore(w2)
    IN  [w3 EXCEPT !.gm.errorOverlay = TRUE, !.hist.dialogs = Bump(@),
                   !.hist.caughtPending = TRUE]

\* MonsterManager.handleMonsterCatch(): its own catch cue, then the callback
\* given to the constructor, Game.handlePlayerCaught
handleMonsterCatch(w) ==
    handlePlayerCaught(playSound(w, "jensenCatch"))

\* MonsterManager.update: the loop over this.monsters; dists[i] is the
\* distance of pursuer i to the player, and every pursuer within the catch
\* distance runs handleMonsterCatch
RECURSIVE MonsterManager_update(_, _, _)
MonsterManager_update(w, dists, i) ==
    IF i > w.mm.count
    THEN w
    ELSE MonsterManager_update(
             IF dists[i] < CatchDistance THEN handleMonsterCatch(w) ELSE w,
             dists, i + 1)

(***************************************************************************)
(* TokenManager.  The token list holds, for each of the 42 positions, zero,*)
(* one or two tokens (two when initializeTokens ran twice): single and     *)
(* double count the positions holding one and two.                         *)
(***************************************************************************)
tokensLength(w) == w.tm.single + 2 * w.tm.double

\* createExitPortal(): the mesh and its position
createExitPortal(w) ==
    [w EXCEPT !.gm.portal = TRUE, !.gm.portalPosition = TRUE]

\* TokenManager.handleAllTokensCollected() runs the callback
\* Game.handleAllTokensCollected(): flag and portal, no completion.
\* hist.allCollected counts the callback's runs since the last reset.
handleAllTokensCollected(w) ==
    createExitPortal([w EXCEPT !.gm.allTokensCollected = TRUE,
                               !.hist.allCollected = Bump(@)])

\* one iteration of the loop of checkTokenCollection that finds its token in
\* range: splice, alternate the cue, award 10 points, raise all-collected
\* when the list is now empty.  hist.removed counts the splices and
\* hist.awards the onScoreUpdate(10) calls since the last reset.
collectToken(w, kind) ==
    LET w1 == IF kind = "double"
              THEN [w EXCEPT !.tm.double = @ - 1, !.tm.single = @ + 1,
                             !.hist.removed = @ + 1]
              ELSE [w EXCEPT !.tm.single = @ - 1, !.hist.removed = @ + 1]
        w2 == [w1 EXCEPT !.tm.lastTokenSound = IF @ = 1 THEN 2 ELSE 1]
        w3 == addPoints([w2 EXCEPT !.hist.awards = @ + 1], PointsPerToken)
    IN  IF tokensLength(w3) = 0 THEN handleAllTokensCollected(w3) ELSE w3

\* checkTokenCollection: positions are 3.5 apart and the radius is 1.2, so
\* the tokens in range are those of one position; kind says how many it holds
checkTokenCollection(w, kind, dist) ==
    IF dist < PickupRadius
    THEN IF kind = "single" /\ w.tm.single > 0
         THEN collectToken(w, "single")
         ELSE IF kind = "double" /\ w.tm.double > 0
         THEN collectToken(collectToken(w, "double"), "single")
         ELSE w
    ELSE w

\* initializeTokens(): pushes one token per position onto this.tokens
initializeTokens(w) ==
    [w EXCEPT !.tm.single = totalTokenCount - w.tm.single - w.tm.double,
              !.tm.double = w.tm.single]

TokenManager_reset(w) ==
    initializeTokens([w EXCEPT !.tm.single = 0, !.tm.double = 0])

(***************************************************************************)
(* MonsterManager: the list of pursuers                                    *)
(***************************************************************************)
initializeMonsters(w) ==
    [w EXCEPT !.mm.count = @ + InitialMonsterCount]

resetToInitialState(w) ==
    [w EXCEPT !.mm.count = Min(@, InitialMonsterCount)]

(***************************************************************************)
(* Game: completion, frame, reset, pause                                   *)
(***************************************************************************)
pauseGame(w) == [w EXCEPT !.gm.isPaused = TRUE]
resumeGame(w) == [w EXCEPT !.gm.isPaused = FALSE]
togglePause(w) == [w EXCEPT !.gm.isPaused = ~@]

\* handleGameCompletion that leaves the score as it is
handleGameCompletion_noAdjust(w) ==
    LET w1 == pauseGame([w EXCEPT !.gm.gameCompleted = TRUE])
        w2 == IF w1.pm.survivalPhaseActive THEN endSurvivalPhase(w1) ELSE w1
    IN  [w2 EXCEPT !.hist.completions = Bump(@), !.hist.event = "completed",
                   !.hist.completedFrom = w.pm.score]

\* handleGameCompletion(): mark completed, pause, end an active survival
\* phase, raise a score below 42 * 10 to it, show the message with
\* getScore().  hist.completedFrom is the score on entry.
handleGameCompletion(w) ==
    LET w1 == pauseGame([w EXCEPT !.gm.gameCompleted = TRUE])
        w2 == IF w1.pm.survivalPhaseActive THEN endSurvivalPhase(w1) ELSE w1
        w3 == IF w2.pm.score < totalTokenCount * PointsPerToken
              THEN setScore(w2, totalTokenCount * PointsPerToken)
              ELSE w2
    IN  [w3 EXCEPT !.hist.completions = Bump(@), !.hist.event = "completed",
                   !.hist.completedFrom = w.pm.score]

\* the exit-portal block of update()
\* the portal block without the distance test
portalCheck_anyDistance(w, dist) ==
    IF w.gm.allTokensCollected /\ w.gm.portal /\ w.gm.portalPosition
    THEN LET w1 == [w EXCEPT !.hist.portalDist = dist,
                             !.hist.order = Append(@, "portal")]
         IN  IF tokensLength(w1) = 0
             THEN handleGameCompletion(w1)
             ELSE [w1 EXCEPT !.gm.allTokensCollected = FALSE,
                             !.gm.portal = FALSE]
    ELSE w

\* the portal block that leaves flag and portal alone when tokens remain
portalCheck_noRetract(w, dist) ==
    IF w.gm.allTokensCollected /\ w.gm.portal /\ w.gm.portalPosition
    THEN LET w1 == [w EXCEPT !.hist.portalDist = dist,
                             !.hist.order = Append(@, "portal")]
         IN  IF tokensLength(w1) = 0 /\ dist < portalRadius
             THEN handleGameCompletion(w1)
             ELSE w1
    ELSE w

portalCheck(w, dist) ==
    IF w.gm.allTokensCollected /\ w.gm.portal /\ w.gm.portalPosition
    THEN LET w1 == [w EXCEPT !.hist.portalDist = dist,
                             !.hist.order = Append(@, "portal")]
         IN  IF tokensLength(w1) = 0 /\ dist < portalRadius
             THEN handleGameCompletion(w1)
             ELSE IF tokensLength(w1) > 0
             THEN [w1 EXCEPT !.gm.allTokensCollected = FALSE,
                             !.gm.portal = FALSE]
             ELSE w1
    ELSE w

\* the body of update() with the survival countdown before the portal block
frame_survivalFirst(w, mdists, kind, tdist, pdist) ==
    LET w0 == [w EXCEPT !.hist.event = "frame",
                        !.hist.order = <<"player", "pursuers">>,
                        !.hist.catchers =
                            Min(CountCap,
                                Cardinality({i \in 1..w.mm.count :
                                    mdists[i] < CatchDistance}))]
        w1 == MonsterManager_update(w0, mdists, 1)
        w2 == checkTokenCollection(
                  [w1 EXCEPT !.hist.order = Append(@, "tokens")], kind, tdist)
        w3 == IF w2.pm.survivalPhaseActive
              THEN updateSurvivalPhase(
                       [w2 EXCEPT !.hist.order = Append(@, "survival")])
              ELSE w2
        w4 == portalCheck(w3, pdist)
    IN  [w4 EXCEPT !.hist.order = Append(@, "render")]

\* the body of update() past its early return: Player.update,
\* MonsterManager.update, checkTokenCollection, the portal block,
\* updateSurvivalPhase while the phase is active, render.  hist.order lists
\* the blocks in the order in which the frame ran them; the portal block is
\* listed when its condition held.
frame(w, mdists, kind, tdist, pdist) ==
    LET w0 == [w EXCEPT !.hist.event = "frame",
                        !.hist.order = <<"player", "pursuers">>,
                        !.hist.catchers =
                            Min(CountCap,
                                Cardinality({i \in 1..w.mm.count :
                                    mdists[i] < CatchDistance}))]
        w1 == MonsterManager_update(w0, mdists, 1)
        w2 == checkTokenCollection(
                  [w1 EXCEPT !.hist.order = Append(@, "tokens")], kind, tdist)
        w3 == portalCheck(w2, pdist)
        w4 == IF w3.pm.survivalPhaseActive
              THEN updateSurvivalPhase(
                       [w3 EXCEPT !.hist.order = Append(@, "survival")])
              ELSE w3
    IN  [w4 EXCEPT !.hist.order = Append(@, "render")]

\* update() that skips only while paused, not when completed
update_noCompletedGuard(w, mdists, kind, tdist, pdist) ==
    IF w.gm.isPaused
    THEN [w EXCEPT !.hist.event = "skipped"]
    ELSE frame(w, mdists, kind, tdist, pdist)

\* update() that skips only when completed, not while paused
update_noPauseGuard(w, mdists, kind, tdist, pdist) ==
    IF w.gm.gameCompleted
    THEN [w EXCEPT !.hist.event = "skipped"]
    ELSE frame(w, mdists, kind, tdist, pdist)

\* update(): one frame.  Early return while paused or completed; otherwise
\* the frame's body.
update(w, mdists, kind, tdist, pdist) ==
    IF w.gm.isPaused \/ w.gm.gameCompleted
    THEN [w EXCEPT !.hist.event = "skipped"]
    ELSE frame(w, mdists, kind, tdist, pdist)

\* hist.roundForced says that the forced catch has happened since the last
\* resetGame (or since construction).
\* resetGame(fullReset).  It clears no timeout and detaches no callback of
\* its own: hist.staleImpossible, staleLatch and staleMusic mark the
\* dead-man's-switch timeout, the latch timeouts and the track-end callback
\* that were armed before it and are still armed when it returns.
resetGame(w, fullReset) ==
    LET w1 == [w EXCEPT !.gm.isPaused = FALSE, !.gm.gameCompleted = FALSE]
        w2 == resetToInitialState(w1)
        w3 == IF w2.gm.portal
              THEN [w2 EXCEPT !.gm.portal = FALSE, !.gm.portalPosition = FALSE]
              ELSE w2
        w4 == TokenManager_reset([w3 EXCEPT !.gm.allTokensCollected = FALSE])
        w5 == PhaseManager_reset(w4)
        w6 == IF w5.pm.score # 0 THEN resetScore(w5) ELSE w5
        w7 == IF fullReset
              THEN playBackgroundMusic(w6, "background", FALSE) ELSE w6
        w8 == IF tokensLength(w7) # totalTokenCount
              THEN TokenManager_reset(w7) ELSE w7
    IN  [w8 EXCEPT !.hist.completions = 0, !.hist.caughtPending = FALSE,
                   !.hist.caughtPickups = 0,
                   !.hist.removed = 0, !.hist.awards = 0,
                   !.hist.allCollected = 0, !.hist.phaseStarts = 0,
                   !.hist.roundForced = FALSE,
                   !.hist.staleImpossible = (w.sched.impossibleTimeout >= 0),
                   !.hist.staleLatch = Len(w.sched.latchTimers),
                   !.hist.staleMusic =
                       (w.am.onended /\ ~w.am.ended
                            /\ w8.am.onended /\ ~w8.am.ended),
                   !.hist.event = IF fullReset THEN "resetFull" ELSE "reset"]

(***************************************************************************)
(* Initial state: the state after the constructors have run.               *)
(***************************************************************************)
InitPhaseManager ==
    [score |-> 0, stage |-> 1, survivalPhaseActive |-> FALSE,
     survivalElapsed |-> 0, endingSurvivalPhase |-> FALSE]

InitAudioManager ==
    [audioContext |-> FALSE, sounds |-> {}, musicSource |-> "none",
     onended |-> FALSE, ended |-> FALSE, playing |-> 0, orphans |-> 0]

InitHist ==
    [catchCue |-> 0, dialogs |-> 0, catchers |-> 0, portalDist |-> 0,
     event |-> "none",
     activated |-> FALSE, exitBonus |-> 0, exitMusic |-> 0, exitNotify |-> 0,
     completions |-> 0, caughtPending |-> FALSE, caughtPickups |-> 0,
     forced |-> FALSE, removed |-> 0, awards |-> 0,
     allCollected |-> 0,
     staleImpossible |-> FALSE, staleLatch |-> 0, staleMusic |-> FALSE,
     staleActed |-> FALSE, phaseStarts |-> 0,
     exited |-> FALSE, exitFrom |-> 0, exitTo |-> 0,
     pausedInPhase |-> FALSE, order |-> <<>>, teleported |-> 0,
     roundForced |-> FALSE, replaced |-> FALSE, completedFrom |-> 0]

(***************************************************************************)
(* The host's event loop.                                                  *)
(***************************************************************************)
\* wall-clock time advances by d units; a timeout that is due runs before
\* time moves on, so d never exceeds a pending timeout's remaining delay
DecAll(seq, d) == [i \in 1..Len(seq) |-> seq[i] - d]

CanPass(d) ==
    /\ \A i \in 1..Len(sched.latchTimers) : sched.latchTimers[i] >= d
    /\ sched.impossibleTimeout >= 0 => sched.impossibleTimeout >= d

PendingDelays ==
    {sched.latchTimers[i] : i \in 1..Len(sched.latchTimers)}
        \cup {sched.impossibleTimeout}

TimePasses(d) ==
    /\ d > 0
    /\ CanPass(d)
    /\ pm' = [pm EXCEPT !.survivalElapsed =
                  IF pm.survivalPhaseActive
                  THEN Min(SurvivalUnits, @ + d) ELSE @]
    /\ sched' = [sched EXCEPT
                  !.latchTimers = DecAll(@, d),
                  !.impossibleTimeout = IF @ >= 0 THEN @ - d ELSE @,
                  !.uptime = Min(UptimeCap, @ + d),
                  !.frameDue = TRUE]
    /\ hist' = [StepHist EXCEPT
                  !.event = "clock",
                  !.pausedInPhase =
                      @ \/ (pm.survivalPhaseActive /\ gm.isPaused)]
    /\ UNCHANGED <<am, tm, mm, gm, mv>>

\* the latch-release timeout armed by endSurvivalPhase
LatchTimerFires ==
    /\ Len(sched.latchTimers) > 0
    /\ sched.latchTimers[1] = 0
    /\ pm' = [pm EXCEPT !.endingSurvivalPhase = FALSE]
    /\ sched' = [sched EXCEPT !.latchTimers = Tail(@)]
    /\ hist' = [StepHist EXCEPT
                  !.staleLatch = Max(0, @ - 1),
                  !.staleActed = (hist.staleLatch > 0
                                     /\ pm.endingSurvivalPhase)]
    /\ UNCHANGED <<am, tm, mm, gm, mv>>

\* the non-looping music source plays to its end: onended runs if attached
MusicEnded ==
    /\ am.musicSource # "none"
    /\ am.musicSource # "background"
    /\ ~am.ended
    /\ LET w1 == [World EXCEPT !.am.ended = TRUE,
                               !.am.playing = @ - 1,
                               !.hist.staleMusic = FALSE]
           w2 == IF am.onended THEN musicEndCallback(w1) ELSE w1
       IN  Commit([w2 EXCEPT !.hist.staleActed =
                                 (hist.staleMusic /\ w2 # w1)])
    /\ UNCHANGED mv

\* first user gesture: setupAudio creates the context and starts the loads
SetupAudio ==
    /\ ~am.audioContext
    /\ am' = [am EXCEPT !.audioContext = TRUE]
    /\ hist' = StepHist
    /\ UNCHANGED <<pm, tm, mm, gm, sched, mv>>

\* loadSound resolves: the buffer is stored; the base track starts at once
SoundLoaded(name) ==
    /\ am.audioContext
    /\ name \notin am.sounds
    /\ LET w1 == [World EXCEPT !.am.sounds = @ \cup {name}]
       IN  Commit(IF name = "background"
                  THEN playBackgroundMusic(w1, "background", FALSE)
                  ELSE w1)
    /\ UNCHANGED mv

(***************************************************************************)
(* SpecPhase: PhaseManager through its public methods.                     *)
(***************************************************************************)
InitSched ==
    [latchTimers |-> <<>>, impossibleTimeout |-> -1, uptime |-> UptimeCap,
     frameDue |-> FALSE]

InitIdle ==
    /\ tm = [single |-> 0, double |-> 0, lastTokenSound |-> 1,
             loadPending |-> FALSE]
    /\ mm = [count |-> 0, loadPending |-> FALSE, impossibleMode |-> FALSE]
    /\ gm = [isPaused |-> FALSE, gameCompleted |-> FALSE,
             allTokensCollected |-> FALSE, portal |-> FALSE,
             portalPosition |-> FALSE, difficulty |-> "Normal",
             impossibleMode |-> FALSE, errorOverlay |-> FALSE,
             errorDialogVisible |-> FALSE, sprintAvailable |-> FALSE]

InitPhase ==
    /\ pm = InitPhaseManager
    /\ am = InitAudioManager
    /\ sched = InitSched
    /\ hist = InitHist
    /\ InitIdle
    /\ mv = <<>>

\* a method call is taken only while the pending latch timeouts fit the bound
Bounded(w) == Len(w.sched.latchTimers) <= MaxLatchTimers

Call(w) == Bounded(w) /\ Commit(w) /\ UNCHANGED mv

P_addPoints == \E p \in PointArgs : Call(addPoints(World, p))
P_subtractPoints == \E p \in PointArgs : Call(subtractPoints(World, p))
P_setScore == \E p \in PointArgs : Call(setScore(World, p))
P_startSurvivalPhase == Call(startSurvivalPhase(World))
P_endSurvivalPhase == Call(endSurvivalPhase(World))
P_updateSurvivalPhase == Call(updateSurvivalPhase(World))
\* hist.event names the reset method that has just returned
P_resetScore == Call([resetScore(World) EXCEPT !.hist.event = "resetScore"])
P_resetStage == Call(resetStage(World))
P_reset == Call([PhaseManager_reset(World) EXCEPT !.hist.event = "phaseReset"])
P_TimePasses == \E d \in {LongStep} \cup PendingDelays : TimePasses(d)
P_SoundLoaded == \E n \in MusicNames : SoundLoaded(n)

NextPhase ==
    \/ P_addPoints
    \/ P_subtractPoints
    \/ P_setScore
    \/ P_startSurvivalPhase
    \/ P_endSurvivalPhase
    \/ P_updateSurvivalPhase
    \/ P_resetScore
    \/ P_resetStage
    \/ P_reset
    \/ P_TimePasses
    \/ LatchTimerFires
    \/ MusicEnded
    \/ SetupAudio
    \/ P_SoundLoaded

SpecPhase == InitPhase /\ [][NextPhase]_vars

(***************************************************************************)
(* Spec: the Game orchestrator.                                            *)
(*                                                                         *)
(* A frame of the model stands for the render-loop callbacks of one clock  *)
(* observation: frames in which no pursuer, token or portal is in range    *)
(* and the countdown has not run out change nothing that is modelled, so   *)
(* one Update per advance of the clock carries the frame that matters.     *)
(* Token positions are 3.5 apart and the player covers at most 3.0 in      *)
(* LatchDelayMs at the highest speed (6.0), so one frame reaches the       *)
(* tokens of one position.                                                 *)
(***************************************************************************)
GameDifficulties == {"Normal", "Impossible"}
\* the delay 3000 + Math.random() * 5000 drawn by setupImpossibleMode
ImpossibleDelays ==
    {ImpossibleMinUnits, (ImpossibleMinUnits + ImpossibleMaxUnits) \div 2,
     ImpossibleMaxUnits}
\* tokens picked up between a reset and a model load that resolves after it
\* (unless the load resolves only when all of them have been picked up)
MaxEarlyPickups == 1
\* frames with a pickup played behind an error dialog that is still up
MaxCaughtPickups == 1
\* the pursuer and sound fetches settle, and the first gesture arrives if it
\* ever does, within this many units of construction
LoadWindow == 8

\* gm.sprintAvailable is the player's sprintAvailable: false from the
\* constructor and written only by Player.enableSprint(), which has no caller.
\* new Game(container, ..., difficulty, ...) followed by start(): the model
\* loads of TokenManager and MonsterManager are pending, audio waits for the
\* first gesture, applyDifficultySettings has armed the dead-man's switch
Init ==
    /\ pm = InitPhaseManager
    /\ am = InitAudioManager
    /\ hist = InitHist
    /\ tm = [single |-> 0, double |-> 0, lastTokenSound |-> 1,
             loadPending |-> TRUE]
    /\ \E d \in GameDifficulties, t \in ImpossibleDelays :
          /\ gm = [isPaused |-> FALSE, gameCompleted |-> FALSE,
                   allTokensCollected |-> FALSE, portal |-> FALSE,
                   portalPosition |-> FALSE, difficulty |-> d,
                   impossibleMode |-> (d = "Impossible"),
                   errorOverlay |-> FALSE, errorDialogVisible |-> FALSE,
                   sprintAvailable |-> FALSE]
          /\ mm = [count |-> 0, loadPending |-> TRUE,
                   impossibleMode |-> (d = "Impossible")]
          /\ sched = [latchTimers |-> <<>>,
                      impossibleTimeout |-> IF d = "Impossible" THEN t ELSE -1,
                      uptime |-> 0, frameDue |-> TRUE]
    /\ mv = <<>>

\* requestAnimationFrame callback: update() with this frame's distances
Update ==
    /\ sched.frameDue
    /\ \E mdists \in [1..InitialMonsterCount -> MonsterDists],
          kind \in {"single", "double"},
          tdist \in TokenDists, pdist \in PortalDists :
          /\ hist.caughtPickups >= MaxCaughtPickups => tdist >= PickupRadius
          \* pursuers are interchangeable: the near ones come first; the
          \* inputs of a test that is not made are fixed
          /\ \A i \in 1..(InitialMonsterCount - 1) : mdists[i] <= mdists[i + 1]
          /\ tdist >= PickupRadius => kind = "single"
          /\ ~(gm.allTokensCollected \/ tokensLength(World) <= 2)
                 => pdist = portalRadius
          /\ LET w == update(World, mdists, kind, tdist, pdist)
                 picked == tokensLength(w) # tokensLength(World)
             IN  Commit([w EXCEPT !.sched.frameDue = FALSE,
                                  !.hist.caughtPickups =
                                      IF w.hist.caughtPending /\ picked
                                      THEN @ + 1 ELSE @])
    /\ UNCHANGED mv

\* the dialog's button: remove the overlay, run the callback resetGame(true)
AckDialog ==
    /\ gm.errorOverlay
    /\ Commit(resetGame([World EXCEPT !.gm.errorOverlay = FALSE], TRUE))
    /\ UNCHANGED mv

\* resetGame(fullReset) called by the embedding page
ResetGame ==
    /\ \E fullReset \in BOOLEAN : Commit(resetGame(World, fullReset))
    /\ UNCHANGED mv

\* Space key of the page: ignored while the page's errorDialogVisible is set
TogglePause ==
    /\ ~gm.errorDialogVisible
    /\ Commit(togglePause(World))
    /\ UNCHANGED mv

\* Escape key of the page
PauseGame ==
    /\ ~gm.errorDialogVisible
    /\ Commit(pauseGame(World))
    /\ UNCHANGED mv

ResumeGame ==
    /\ gm.isPaused
    /\ Commit(resumeGame(World))
    /\ UNCHANGED mv

\* MonsterManager.teleportToPlayer(playerPosition): every pursuer of the
\* list is put on the player's position; hist.teleported counts them
teleportToPlayer(w) ==
    [w EXCEPT !.hist.teleported = w.mm.count,
              !.hist.order = Append(@, "teleport")]

\* the timeout armed by setupImpossibleMode: teleportToPlayer and the
\* wrapped onPlayerCaught (Game.handlePlayerCaught, then the page's handler)
\* unless the game is completed or paused; the timeout is not armed again.
\* hist.event is "forced" when the body ran and "switchIdle" when not.
impossibleTimeoutHandler(w) ==
    IF w.gm.impossibleMode /\ ~w.gm.gameCompleted /\ ~w.gm.isPaused
    THEN [handlePlayerCaught(teleportToPlayer(w))
              EXCEPT !.gm.errorDialogVisible = TRUE,
                     !.hist.forced = TRUE,
                     !.hist.roundForced = TRUE,
                     !.hist.event = "forced",
                     !.hist.order = Append(@, "caught"),
                     !.hist.staleActed = w.hist.staleImpossible]
    ELSE [w EXCEPT !.hist.event = "switchIdle"]

ImpossibleTimeoutFires ==
    /\ sched.impossibleTimeout = 0
    /\ Commit([impossibleTimeoutHandler(
                   [World EXCEPT !.sched.impossibleTimeout = -1])
                   EXCEPT !.hist.staleImpossible = FALSE])
    /\ UNCHANGED mv

\* loadMonsterModel() settles: initializeMonsters
MonsterLoadResolves ==
    /\ mm.loadPending
    /\ Commit(initializeMonsters([World EXCEPT !.mm.loadPending = FALSE,
                                               !.hist.event = "monsterLoad"]))
    /\ UNCHANGED mv

\* loadTokenModel() settles: initializeTokens
TokenLoadResolves ==
    /\ tm.loadPending
    /\ tm.single = 0 \/ tm.single >= totalTokenCount - MaxEarlyPickups
    /\ Commit(initializeTokens([World EXCEPT !.tm.loadPending = FALSE,
                                             !.hist.event = "tokenLoad"]))
    /\ UNCHANGED mv

\* (the token model's fetch may stay pending for as long as it takes)
Settled ==
    /\ ~mm.loadPending
    /\ am.audioContext => am.sounds = MusicNames

G_TimePasses ==
    \E d \in {FrameStep} \cup PendingDelays :
        /\ Settled \/ sched.uptime + d <= LoadWindow
        /\ TimePasses(d)

G_SetupAudio == sched.uptime <= LoadWindow /\ SetupAudio

G_SoundLoaded == \E n \in MusicNames : SoundLoaded(n)

Next ==
    \/ Update
    \/ AckDialog
    \/ ResetGame
    \/ TogglePause
    \/ PauseGame
    \/ ResumeGame
    \/ ImpossibleTimeoutFires
    \/ MonsterLoadResolves
    \/ TokenLoadResolves
    \/ G_TimePasses
    \/ LatchTimerFires
    \/ MusicEnded
    \/ G_SetupAudio
    \/ G_SoundLoaded

Spec == Init /\ [][Next]_vars

(***************************************************************************)
(* SpecRun: a game on Normal difficulty played frame by frame, with a      *)
(* frame every ShortStep units, which is about the time the player needs   *)
(* from one token position to the next; both model loads settle before     *)
(* the clock first advances, and no audio is set up.  Here a round can     *)
(* collect all tokens within one survival phase.                           *)
(***************************************************************************)
ShortStep == 2

InitRun ==
    /\ Init
    /\ gm.difficulty = "Normal"

R_TimePasses ==
    \E d \in {ShortStep} \cup PendingDelays :
        /\ ~mm.loadPending
        /\ ~tm.loadPending
        /\ TimePasses(d)

NextRun ==
    \/ Update
    \/ AckDialog
    \/ MonsterLoadResolves
    \/ TokenLoadResolves
    \/ R_TimePasses
    \/ LatchTimerFires

SpecRun == InitRun /\ [][NextRun]_vars

(***************************************************************************)
(* SpecMove: geometry.  Lengths are integers, UnitsPerWorld to one world   *)
(* unit; a frame's deltaTime is a multiple of 5/12 s, in which the player  *)
(* turns a quarter circle (rotationSpeed 1.2 pi) and headings stay         *)
(* multiples of 45 degrees.                                                *)
(***************************************************************************)
UnitsPerWorld == 40
Tenths(t) == (t * UnitsPerWorld) \div 10
\* Maze: mazeSize 35, cellSize 3.5
mazeSize == Tenths(350)
cellSize == Tenths(35)
mazeLayout ==
    << <<1, 1, 1, 1, 1, 1, 1, 1, 1, 1, 1>>,
       <<1, 0, 0, 0, 0, 0, 0, 0, 0, 0, 1>>,
       <<1, 0, 1, 1, 0, 1, 0, 1, 1, 0, 1>>,
       <<1, 0, 1, 0, 0, 0, 0, 0, 1, 0, 1>>,
       <<1, 0, 0, 0, 1, 1, 1, 0, 0, 0, 1>>,
       <<1, 0, 1, 0, 1, 0, 1, 0, 1, 0, 1>>,
       <<1, 0, 1, 0, 1, 0, 1, 0, 1, 0, 1>>,
       <<1, 0, 1, 0, 0, 0, 0, 0, 1, 0, 1>>,
       <<1, 0, 1, 1, 1, 0, 1, 1, 1, 0, 1>>,
       <<1, 0, 0, 0, 0, 0, 0, 0, 0, 0, 1>>,
       <<1, 1, 1, 1, 1, 1, 1, 1, 1, 1, 1>> >>

\* getWorldPositionFromGridCoordinates, one axis
GridToWorld(g) == (g * cellSize) - (mazeSize \div 2) + (cellSize \div 2)

\* a wall box at grid index g overlaps the interval c - radius .. c + radius
\* on one axis (strict on both sides)
AxisOverlap(c, radius, g) ==
    /\ c + radius > GridToWorld(g) - (cellSize \div 2)
    /\ c - radius < GridToWorld(g) + (cellSize \div 2)

\* Maze.checkWallCollision(position, radius): some wall box (a layout cell
\* holding 1) overlaps on X and on Z; the walls are visited by column
checkWallCollision(x, z, radius) ==
    \E col \in 0..10 :
        /\ AxisOverlap(x, radius, col)
        /\ \E row \in 0..10 :
               mazeLayout[row + 1][col + 1] = 1 /\ AxisOverlap(z, radius, row)


Abs(a) == IF a < 0 THEN -a ELSE a
Sign(a) == IF a < 0 THEN -1 ELSE IF a > 0 THEN 1 ELSE 0
\* a / b rounded to the nearest integer, b > 0
RoundDiv(a, b) == Sign(a) * ((2 * Abs(a) + b) \div (2 * b))

\* floor of the square root, by bisection on lo..hi
RECURSIVE SqrtBetween(_, _, _)
SqrtBetween(n, lo, hi) ==
    IF lo >= hi
    THEN lo
    ELSE LET mid == (lo + hi + 1) \div 2
         IN  IF mid * mid <= n
             THEN SqrtBetween(n, mid, hi)
             ELSE SqrtBetween(n, lo, mid - 1)
Sqrt(n) == SqrtBetween(n, 0, 4 * mazeSize)

\* sine and cosine of heading h (eighths of a turn), times 1000
Sin1000(h) == <<0, 707, 1000, 707, 0, -707, -1000, -707>>[(h % 8) + 1]
Cos1000(h) == Sin1000(h + 2)

\* speeds in units per 5/12 s: the player's 3.0 (6.0 on Easy), a pursuer's 1.5
MoveDifficulties == {"Easy", "Normal", "Hard"}
playerSpeed(difficulty) ==
    IF difficulty = "Easy" THEN (Tenths(60) * 5) \div 12
    ELSE (Tenths(30) * 5) \div 12
monsterSpeed == RoundDiv(Tenths(15) * 5, 12)
\* a pursuer's speed field is in tenths of a world unit per second:
\* initializeMonsters creates every pursuer with speed 1.5
initialMonsterSpeed == 15
SpeedPerDelta(speed) == RoundDiv(Tenths(speed) * 5, 12)
\* the pursuer speed that applyDifficultySettings selects
difficultySpeed(difficulty) ==
    CASE difficulty = "Easy" -> 20
      [] difficulty = "Normal" -> 15
      [] difficulty = "Hard" -> 25
      [] difficulty = "Impossible" -> 100

\* setMonsterSpeed(speed): the speed of every pursuer now in the list
setMonsterSpeed(monsters, speed) ==
    [i \in 1..Len(monsters) |-> [monsters[i] EXCEPT !.speed = speed]]
\* a quarter turn per 5/12 s
TurnPerDelta == 2
\* sprint energy in twelfths of a point: 100 full, 20/s down, 10/s up
SprintFull == 1200
sprintDepletionRate == 100
sprintRechargeRate == 50

Player_radius == Tenths(4)
monsterPositions == << <<9, 1>>, <<1, 9>>, <<9, 9>> >>

\* Player.update without the collision revert
Player_resolve_noRevert(p, nx, nz) ==
    [p EXCEPT !.x = nx, !.z = nz, !.reverted = FALSE]

\* Player.update that slides along X when the full move collides
Player_resolve_slide(p, nx, nz) ==
    IF ~checkWallCollision(nx, nz, Player_radius)
    THEN [p EXCEPT !.x = nx, !.z = nz, !.reverted = FALSE]
    ELSE IF ~checkWallCollision(nx, p.z, Player_radius)
    THEN [p EXCEPT !.x = nx, !.reverted = TRUE]
    ELSE [p EXCEPT !.reverted = TRUE]

\* the end of Player.update: keep the new position unless it collides
Player_resolve(p, nx, nz) ==
    IF checkWallCollision(nx, nz, Player_radius)
    THEN [p EXCEPT !.reverted = TRUE]
    ELSE [p EXCEPT !.x = nx, !.z = nz, !.reverted = FALSE]

\* Player.update, rotation: keyboard a / d, then the rotation stick
\* (mobileRotation is in halves; |mobileRotation| > 0.1).  Each of the three
\* branches ends with onRotationUpdate(this.rotation): notifiedRotation is
\* the argument of the last call (-1: no call yet).
Player_turn(p, keys, dt) ==
    LET r1 == IF "a" \in keys THEN p.rotation + TurnPerDelta * dt
              ELSE p.rotation
        r2 == IF "d" \in keys THEN r1 - TurnPerDelta * dt ELSE r1
        r3 == IF p.isUsingMobileControls /\ p.mobileRotation # 0
              THEN r2 - ((p.mobileRotation * TurnPerDelta * dt) \div 2)
              ELSE r2
        turned == \/ "a" \in keys
                  \/ "d" \in keys
                  \/ p.isUsingMobileControls /\ p.mobileRotation # 0
    IN  [p EXCEPT !.rotation = r3 % 8,
                  !.notifiedRotation = IF turned THEN r3 % 8 ELSE @]

\* the sprint block without the floor at 0
Player_sprint_noFloor(p, keys, dt) ==
    LET wantSprint == p.sprintAvailable /\ "shift" \in keys
    IN  [p EXCEPT
           !.isSprinting = wantSprint /\ p.sprintEnergy > 0,
           !.sprintEnergy =
               IF wantSprint
               THEN IF p.sprintEnergy > 0
                    THEN p.sprintEnergy - sprintDepletionRate * dt
                    ELSE p.sprintEnergy
               ELSE IF p.sprintAvailable
                    THEN Min(SprintFull,
                             p.sprintEnergy + sprintRechargeRate * dt)
                    ELSE p.sprintEnergy]

\* Player.update, sprint: drain while shift is held and energy is left,
\* recharge otherwise, both only once sprint is available
Player_sprint(p, keys, dt) ==
    LET wantSprint == p.sprintAvailable /\ "shift" \in keys
    IN  [p EXCEPT
           !.isSprinting = wantSprint /\ p.sprintEnergy > 0,
           !.sprintEnergy =
               IF wantSprint
               THEN IF p.sprintEnergy > 0
                    THEN Max(0, p.sprintEnergy - sprintDepletionRate * dt)
                    ELSE p.sprintEnergy
               ELSE IF p.sprintAvailable
                    THEN Min(SprintFull,
                             p.sprintEnergy + sprintRechargeRate * dt)
                    ELSE p.sprintEnergy]

\* Player.update(deltaTime, checkWallCollision)
Player_update(p, keys, dt) ==
    LET q == Player_sprint(Player_turn(p, keys, dt), keys, dt)
        currentSpeed == IF q.isSprinting THEN 2 * q.speed ELSE q.speed
        v1 == IF "w" \in keys THEN -currentSpeed ELSE 0
        v2 == IF "s" \in keys THEN currentSpeed ELSE v1
        \* mobileForward is in halves
        vz == IF q.isUsingMobileControls
              THEN -((q.mobileForward * currentSpeed) \div 2)
              ELSE v2
        \* makeRotationY(rotation) applied to (0, 0, vz), times deltaTime
        nx == q.x + RoundDiv(vz * dt * Sin1000(q.rotation), 1000)
        nz == q.z + RoundDiv(vz * dt * Cos1000(q.rotation), 1000)
    IN  Player_resolve(q, nx, nz)

\* the sliding of a pursuer that tries Z only before X only
Monster_resolve_zFirst(m, mx, mz, caught, impossible) ==
    IF impossible \/ ~checkWallCollision(m.x + mx, m.z + mz,
                                         Tenths(monsterRadius))
    THEN [x |-> m.x + mx, z |-> m.z + mz, how |-> "full", caught |-> caught,
          speed |-> m.speed]
    ELSE IF ~checkWallCollision(m.x, m.z + mz, Tenths(monsterRadius))
    THEN [x |-> m.x, z |-> m.z + mz, how |-> "z", caught |-> caught,
          speed |-> m.speed]
    ELSE IF ~checkWallCollision(m.x + mx, m.z, Tenths(monsterRadius))
    THEN [x |-> m.x + mx, z |-> m.z, how |-> "x", caught |-> caught,
          speed |-> m.speed]
    ELSE [x |-> m.x, z |-> m.z, how |-> "stuck", caught |-> caught,
          speed |-> m.speed]

\* one pursuer of MonsterManager.update: step towards the player, then the
\* full move, X only, Z only, or stay
Monster_resolve(m, mx, mz, caught, impossible) ==
    IF impossible \/ ~checkWallCollision(m.x + mx, m.z + mz,
                                         Tenths(monsterRadius))
    THEN [x |-> m.x + mx, z |-> m.z + mz, how |-> "full", caught |-> caught,
          speed |-> m.speed]
    ELSE IF ~checkWallCollision(m.x + mx, m.z, Tenths(monsterRadius))
    THEN [x |-> m.x + mx, z |-> m.z, how |-> "x", caught |-> caught,
          speed |-> m.speed]
    ELSE IF ~checkWallCollision(m.x, m.z + mz, Tenths(monsterRadius))
    THEN [x |-> m.x, z |-> m.z + mz, how |-> "z", caught |-> caught,
          speed |-> m.speed]
    ELSE [x |-> m.x, z |-> m.z, how |-> "stuck", caught |-> caught,
          speed |-> m.speed]

\* the movement of one pursuer in a frame: the normalized direction to the
\* player times speed * deltaTime; normalize() leaves the zero vector alone
Monster_movement(m, px, pz, dt) ==
    LET dx == px - m.x
        dz == pz - m.z
        len == Sqrt(dx * dx + dz * dz)
    IN  IF len = 0
        THEN <<0, 0>>
        ELSE <<RoundDiv(dx * SpeedPerDelta(m.speed) * dt, len),
               RoundDiv(dz * SpeedPerDelta(m.speed) * dt, len)>>

\* the squared distance of a pursuer to the player
DistSq(m, px, pz) == (px - m.x) * (px - m.x) + (pz - m.z) * (pz - m.z)

Monster_move(m, px, pz, dt, impossible) ==
    LET movement == Monster_movement(m, px, pz, dt)
        \* distanceToPlayer < playerRadius + monsterRadius, before the move
        caught == DistSq(m, px, pz)
                      < Tenths(CatchDistance) * Tenths(CatchDistance)
    IN  Monster_resolve(m, movement[1], movement[2], caught, impossible)

\* a pursuer at its spawn cell
Monster_spawn(i) ==
    [x |-> GridToWorld(monsterPositions[i][1]),
     z |-> GridToWorld(monsterPositions[i][2]),
     how |-> "spawn", caught |-> FALSE, speed |-> initialMonsterSpeed]

\* frames of the geometry run, and the largest deltaTime of a frame
MaxMoveTicks == 3
MaxDelta == 2
KeySets == {{}, {"w"}, {"s"}, {"a", "w"}, {"d", "w"}, {"d"}}
MobileAxis == {-2, 1}

InitMove ==
    /\ pm = InitPhaseManager
    /\ am = InitAudioManager
    /\ sched = InitSched
    /\ hist = InitHist
    /\ InitIdle
    /\ \E d \in MoveDifficulties :
          mv = [player |-> [x |-> GridToWorld(1), z |-> GridToWorld(1),
                            rotation |-> 4, speed |-> playerSpeed(d),
                            sprintAvailable |-> FALSE,
                            sprintEnergy |-> SprintFull,
                            isSprinting |-> FALSE,
                            isUsingMobileControls |-> FALSE,
                            mobileForward |-> 0, mobileRotation |-> 0,
                            reverted |-> FALSE, notifiedRotation |-> -1],
                \* applyDifficultySettings runs in the constructor, on the
                \* list as it is then
                monsters |-> setMonsterSpeed(<<>>, difficultySpeed(d)),
                difficulty |-> d,
                isPaused |-> FALSE,
                ticks |-> 0]

\* update() while not paused: Player.update, then MonsterManager.update;
\* a pursuer within catch distance pauses the game (handlePlayerCaught)
M_Update ==
    /\ ~mv.isPaused
    /\ mv.ticks < MaxMoveTicks
    /\ \E keys \in KeySets, dt \in 1..MaxDelta :
          \E p \in {Player_update(mv.player, keys, dt)} :
          \E ms \in {[i \in 1..Len(mv.monsters) |->
                         Monster_move(mv.monsters[i], p.x, p.z, dt, FALSE)]} :
              mv' = [mv EXCEPT !.player = p,
                               !.monsters = ms,
                               !.isPaused = \E i \in 1..Len(ms) : ms[i].caught,
                               !.ticks = @ + 1]
    /\ UNCHANGED <<pm, am, tm, mm, gm, sched, hist>>

\* loadMonsterModel() settles: initializeMonsters
M_MonsterLoadResolves ==
    /\ mv.monsters = <<>>
    /\ mv' = [mv EXCEPT
                !.monsters = [i \in 1..InitialMonsterCount |-> Monster_spawn(i)]]
    /\ UNCHANGED <<pm, am, tm, mm, gm, sched, hist>>

\* resetGame: the player back to the start facing pi, the pursuers back to
\* their spawn cells, the game unpaused
M_ResetGame ==
    /\ mv.ticks > 0
    /\ mv' = [mv EXCEPT
                !.player.x = GridToWorld(1),
                !.player.z = GridToWorld(1),
                !.player.rotation = 4,
                !.player.reverted = FALSE,
                !.monsters = [i \in 1..Len(mv.monsters) |->
                                 [Monster_spawn(i) EXCEPT
                                    !.speed = mv.monsters[i].speed]],
                !.isPaused = FALSE]
    /\ UNCHANGED <<pm, am, tm, mm, gm, sched, hist>>

\* the joystick callbacks of initializeMobileControls: the movement stick
\* sets (forward, 0), the rotation stick sets (0, rotation)
M_MobileMove ==
    /\ \E f \in MobileAxis :
          mv' = [mv EXCEPT !.player.mobileForward = f,
                           !.player.mobileRotation = 0,
                           !.player.isUsingMobileControls = TRUE]
    /\ UNCHANGED <<pm, am, tm, mm, gm, sched, hist>>

M_MobileRotate ==
    /\ \E r \in MobileAxis :
          mv' = [mv EXCEPT !.player.mobileForward = 0,
                           !.player.mobileRotation = r,
                           !.player.isUsingMobileControls = TRUE]
    /\ UNCHANGED <<pm, am, tm, mm, gm, sched, hist>>

NextMove ==
    \/ M_Update
    \/ M_MonsterLoadResolves
    \/ M_ResetGame
    \/ M_MobileMove
    \/ M_MobileRotate

SpecMove == InitMove /\ [][NextMove]_vars

(***************************************************************************)
(* SpecPlayer: the Player object through its public methods: update with   *)
(* the keys held and a deltaTime, enableSprint, setMobileControlsInput and *)
(* resetPosition.  mv.keys and mv.dt are the inputs of the last update.    *)
(***************************************************************************)
MaxPlayerTicks == 3
PlayerKeySets == KeySets \cup {{"shift"}, {"shift", "w"}, {"a", "shift", "w"}}
\* (forward, rotation) pairs handed over by the joysticks, in halves
MobileInputs == {<<f, 0>> : f \in MobileAxis} \cup {<<0, r>> : r \in MobileAxis}

\* new Player(startPosition, Math.PI, 3.0, Math.PI * 1.2, ...) and the speed
\* set by applyDifficultySettings
Player_new(difficulty) ==
    [x |-> GridToWorld(1), z |-> GridToWorld(1),
     rotation |-> 4, speed |-> playerSpeed(difficulty),
     sprintAvailable |-> FALSE, sprintEnergy |-> SprintFull,
     isSprinting |-> FALSE, isUsingMobileControls |-> FALSE,
     mobileForward |-> 0, mobileRotation |-> 0, reverted |-> FALSE,
     notifiedRotation |-> -1]

InitPlayer ==
    /\ pm = InitPhaseManager
    /\ am = InitAudioManager
    /\ sched = InitSched
    /\ hist = InitHist
    /\ InitIdle
    /\ \E d \in MoveDifficulties :
          mv = [player |-> Player_new(d), keys |-> {}, dt |-> 0, ticks |-> 0]

PL_update ==
    /\ mv.ticks < MaxPlayerTicks
    /\ \E keys \in PlayerKeySets, dt \in 1..MaxDelta :
          mv' = [mv EXCEPT !.player = Player_update(mv.player, keys, dt),
                           !.keys = keys, !.dt = dt, !.ticks = @ + 1]
    /\ UNCHANGED <<pm, am, tm, mm, gm, sched, hist>>

PL_enableSprint ==
    /\ mv' = [mv EXCEPT !.player.sprintAvailable = TRUE,
                        !.player.sprintEnergy = SprintFull]
    /\ UNCHANGED <<pm, am, tm, mm, gm, sched, hist>>

PL_setMobileControlsInput ==
    /\ \E in \in MobileInputs :
          mv' = [mv EXCEPT !.player.mobileForward = in[1],
                           !.player.mobileRotation = in[2],
                           !.player.isUsingMobileControls = TRUE]
    /\ UNCHANGED <<pm, am, tm, mm, gm, sched, hist>>

PL_resetPosition ==
    /\ mv.ticks > 0
    /\ mv' = [mv EXCEPT !.player.x = GridToWorld(1),
                        !.player.z = GridToWorld(1),
                        !.player.rotation = 4,
                        !.player.notifiedRotation = 4]
    /\ UNCHANGED <<pm, am, tm, mm, gm, sched, hist>>

NextPlayer ==
    \/ PL_update
    \/ PL_enableSprint
    \/ PL_setMobileControlsInput
    \/ PL_resetPosition

SpecPlayer == InitPlayer /\ [][NextPlayer]_vars

(***************************************************************************)
(* SpecClock: the frame clock and the player.  update() reads              *)
(* clock.getDelta() only in a frame it executes, so a frame's deltaTime is *)
(* the time since the last executed frame, the paused time included.       *)
(* mv.elapsed is the time since the last getDelta(), in units of 5/12 s.   *)
(***************************************************************************)
\* executed frames of a run, and the longest time counted between two
MaxClockTicks == 3
MaxElapsed == 5
ClockKeySets == {{}, {"w"}, {"s"}, {"shift", "w"}}

\* the grid index of the cell that holds world coordinate c
CellOf(c) == (c + (mazeSize \div 2)) \div cellSize

\* the position lies in a cell of the 11x11 layout that holds 0
InOpenCell(x, z) ==
    /\ CellOf(x) \in 0..10
    /\ CellOf(z) \in 0..10
    /\ mazeLayout[CellOf(z) + 1][CellOf(x) + 1] = 0

InitClock ==
    /\ pm = InitPhaseManager
    /\ am = InitAudioManager
    /\ sched = InitSched
    /\ hist = InitHist
    /\ InitIdle
    /\ \E d \in MoveDifficulties :
          mv = [player |-> Player_new(d), keys |-> {}, dt |-> 0,
                isPaused |-> FALSE, elapsed |-> 0, ticks |-> 0,
                event |-> "none"]

K_TimePasses ==
    /\ mv.elapsed < MaxElapsed
    /\ mv' = [mv EXCEPT !.elapsed = @ + 1, !.event = "clock"]
    /\ UNCHANGED <<pm, am, tm, mm, gm, sched, hist>>

\* update(): nothing but the next frame's request while paused; otherwise
\* getDelta() and Player.update with the keys held
K_Update ==
    /\ mv.ticks < MaxClockTicks
    /\ \E keys \in ClockKeySets :
          mv' = IF mv.isPaused
                THEN [mv EXCEPT !.event = "skipped"]
                ELSE [mv EXCEPT
                        !.player = Player_update(mv.player, keys, mv.elapsed),
                        !.keys = keys, !.dt = mv.elapsed, !.elapsed = 0,
                        !.ticks = @ + 1, !.event = "frame"]
    /\ UNCHANGED <<pm, am, tm, mm, gm, sched, hist>>

K_TogglePause ==
    /\ mv' = [mv EXCEPT !.isPaused = ~@, !.event = "pause"]
    /\ UNCHANGED <<pm, am, tm, mm, gm, sched, hist>>

K_enableSprint ==
    /\ mv' = [mv EXCEPT !.player.sprintAvailable = TRUE,
                        !.player.sprintEnergy = SprintFull,
                        !.event = "enableSprint"]
    /\ UNCHANGED <<pm, am, tm, mm, gm, sched, hist>>

\* resetGame: the player back to the start facing pi, the game unpaused
K_ResetGame ==
    /\ mv.ticks > 0
    /\ mv' = [mv EXCEPT !.player.x = GridToWorld(1),
                        !.player.z = GridToWorld(1),
                        !.player.rotation = 4,
                        !.player.reverted = FALSE,
                        !.isPaused = FALSE,
                        !.event = "reset"]
    /\ UNCHANGED <<pm, am, tm, mm, gm, sched, hist>>

NextClock ==
    \/ K_TimePasses
    \/ K_Update
    \/ K_TogglePause
    \/ K_enableSprint
    \/ K_ResetGame

SpecClock == InitClock /\ [][NextClock]_vars

(***************************************************************************)
(* SpecPursuer: one frame of one strict pursuer, outside impossible mode,  *)
(* from any wall-free position of the pursuer and of the player near it.   *)
(* Positions are a cell and an offset from its centre.                     *)
(***************************************************************************)
\* frames of a run, and how many cells away from the pursuer's cell the
\* player's cell may be on each axis
MaxPursuerTicks == 1
ViewCells == 1
\* offsets from the centre of an open cell at which a pursuer (half a cell
\* less radius 0.5 from the cell's edge at the most) and the player stand
MonsterOffsets == {-(cellSize \div 2 - Tenths(monsterRadius)), 0,
                   cellSize \div 2 - Tenths(monsterRadius)}
PlayerOffsets == {-(cellSize \div 2 - Player_radius), 0, Tenths(10)}
OpenCells ==
    {c \in (0..10) \X (0..10) : mazeLayout[c[1] + 1][c[2] + 1] = 0}

InitPursuer ==
    /\ pm = InitPhaseManager
    /\ am = InitAudioManager
    /\ sched = InitSched
    /\ hist = InitHist
    /\ InitIdle
    /\ \E mc \in OpenCells, pc \in OpenCells,
          mo \in MonsterOffsets \X MonsterOffsets,
          po \in PlayerOffsets \X PlayerOffsets :
          /\ Abs(mc[1] - pc[1]) <= ViewCells
          /\ Abs(mc[2] - pc[2]) <= ViewCells
          /\ mv = [monster |-> [x |-> GridToWorld(mc[2]) + mo[1],
                                z |-> GridToWorld(mc[1]) + mo[2],
                                how |-> "spawn", caught |-> FALSE,
                                speed |-> initialMonsterSpeed],
                   player |-> [x |-> GridToWorld(pc[2]) + po[1],
                               z |-> GridToWorld(pc[1]) + po[2]],
                   dt |-> 0, ticks |-> 0]

\* the body of the loop of MonsterManager.update for this pursuer
U_Update ==
    /\ mv.ticks < MaxPursuerTicks
    /\ \E dt \in 1..MaxDelta :
          mv' = [mv EXCEPT
                   !.monster = Monster_move(mv.monster, mv.player.x,
                                            mv.player.z, dt, FALSE),
                   !.dt = dt, !.ticks = @ + 1]
    /\ UNCHANGED <<pm, am, tm, mm, gm, sched, hist>>

NextPursuer == U_Update

SpecPursuer == InitPursuer /\ [][NextPursuer]_vars

(***************************************************************************)
(* SpecAlert: the proximity alerts of two strict pursuers and one erratic  *)
(* pursuer.  performance.now() is counted in time units; each frame reads  *)
(* it once and gets every pursuer's distance to the player as an input.    *)
(***************************************************************************)
\* performance.now() is observed up to here, and it advances by one of
\* these steps between two observations
MaxNow == 14
NowSteps == {1, 2, 5}
\* Monster.ts: alert within 5 units, more than 3000 ms after the last one
Monster_alertRadius == Tenths(50)
Monster_alertGapMs == 3000
\* Clipy.ts: alert within 8 units, more than 2000 ms after the last one
Clipy_alertRadius == Tenths(80)
Clipy_alertGapMs == 2000
\* the distances of a frame: just inside the radius, and on it
Monster_alertDists == {Monster_alertRadius - 1, Monster_alertRadius}
Clipy_alertDists == {Clipy_alertRadius - 1, Clipy_alertRadius}

\* a pursuer as created: lastSoundTime 0.  alerted and dist describe the
\* last frame; lastAlert and prevAlert are the times of the pursuer's last
\* two requests to play the alert cue (-1: none)
Alert_spawn ==
    [lastSoundTime |-> 0, alerted |-> FALSE, dist |-> 0,
     lastAlert |-> -1, prevAlert |-> -1]

\* the alert that does not stamp lastSoundTime
proximityAlert_noStamp(p, dist, currentTime, radius, gapMs) ==
    IF dist < radius
          /\ (currentTime - p.lastSoundTime) * TimeUnitMs > gapMs
    THEN [p EXCEPT !.alerted = TRUE, !.dist = dist,
                   !.prevAlert = p.lastAlert, !.lastAlert = currentTime]
    ELSE [p EXCEPT !.alerted = FALSE, !.dist = dist]

\* if (distanceToPlayer < radius && currentTime - lastSoundTime > gap)
\*     { playSound('jensenClose'); lastSoundTime = currentTime; }
proximityAlert(p, dist, currentTime, radius, gapMs) ==
    IF dist < radius
          /\ (currentTime - p.lastSoundTime) * TimeUnitMs > gapMs
    THEN [p EXCEPT !.alerted = TRUE, !.dist = dist,
                   !.prevAlert = p.lastAlert, !.lastAlert = currentTime,
                   !.lastSoundTime = currentTime]
    ELSE [p EXCEPT !.alerted = FALSE, !.dist = dist]

InitAlert ==
    /\ pm = InitPhaseManager
    /\ am = InitAudioManager
    /\ sched = InitSched
    /\ hist = InitHist
    /\ InitIdle
    /\ mv = [now |-> 0,
             monsters |-> <<Alert_spawn, Alert_spawn>>,
             clibies |-> <<Alert_spawn>>]

A_TimePasses ==
    /\ \E d \in NowSteps :
          /\ mv.now + d <= MaxNow
          /\ mv' = [mv EXCEPT !.now = @ + d]
    /\ UNCHANGED <<pm, am, tm, mm, gm, sched, hist>>

\* one frame: MonsterManager.update, then ClipyManager.update
A_Update ==
    /\ \E md \in [1..2 -> Monster_alertDists], cd \in Clipy_alertDists :
          mv' = [mv EXCEPT
                   !.monsters =
                       [i \in 1..2 |->
                           proximityAlert(mv.monsters[i], md[i], mv.now,
                                          Monster_alertRadius,
                                          Monster_alertGapMs)],
                   !.clibies =
                       <<proximityAlert(mv.clibies[1], cd, mv.now,
                                        Clipy_alertRadius,
                                        Clipy_alertGapMs)>>]
    /\ UNCHANGED <<pm, am, tm, mm, gm, sched, hist>>

NextAlert == A_TimePasses \/ A_Update

SpecAlert == InitAlert /\ [][NextAlert]_vars

(***************************************************************************)
(* SpecClipy: one frame of one erratic pursuer, from any wall-free         *)
(* position of the pursuer and of the player near it.  Math.random() is an *)
(* input of the frame.                                                     *)
(***************************************************************************)
MaxClipyTicks == 1
clipyRadius == 5
clipySpeed == 25
\* Math.random() in twentieths: the midpoints of the ten tenths of [0, 1)
RandomScale == 20
RandomDraws == {2 * k + 1 : k \in 0..9}
\* "Math.random() > 0.2", in twentieths
ClipyThreshold == (2 * RandomScale) \div 10

\* the wall test is made for a draw below the threshold
Clipy_move_inverted(c, px, pz, dt, draw) ==
    LET movement == Monster_movement(c, px, pz, dt)
        nx == c.x + movement[1]
        nz == c.z + movement[2]
        checked == draw < ClipyThreshold
        hit == checkWallCollision(nx, nz, Tenths(clipyRadius))
    IN  [c EXCEPT !.x = IF checked /\ hit THEN c.x ELSE nx,
                  !.z = IF checked /\ hit THEN c.z ELSE nz,
                  !.ox = c.x, !.oz = c.z, !.nx = nx, !.nz = nz,
                  !.checked = checked, !.hit = hit]

\* the movement of ClipyManager.update's loop body: add the movement, and
\* copy the old position back if the draw exceeds 0.2 and the new position
\* collides (&& makes the wall test only after the draw passed).  ox, oz,
\* nx, nz, checked and hit record the old and the tentative position,
\* whether the draw let the test be made and whether the tentative position
\* overlaps a wall.
Clipy_move(c, px, pz, dt, draw) ==
    LET movement == Monster_movement(c, px, pz, dt)
        nx == c.x + movement[1]
        nz == c.z + movement[2]
        checked == draw > ClipyThreshold
        hit == checkWallCollision(nx, nz, Tenths(clipyRadius))
    IN  [c EXCEPT !.x = IF checked /\ hit THEN c.x ELSE nx,
                  !.z = IF checked /\ hit THEN c.z ELSE nz,
                  !.ox = c.x, !.oz = c.z, !.nx = nx, !.nz = nz,
                  !.checked = checked, !.hit = hit]

InitClipy ==
    /\ pm = InitPhaseManager
    /\ am = InitAudioManager
    /\ sched = InitSched
    /\ hist = InitHist
    /\ InitIdle
    /\ \E cc \in OpenCells, pc \in OpenCells,
          co \in MonsterOffsets \X MonsterOffsets :
          /\ Abs(cc[1] - pc[1]) <= ViewCells
          /\ Abs(cc[2] - pc[2]) <= ViewCells
          /\ mv = [clipy |-> [x |-> GridToWorld(cc[2]) + co[1],
                              z |-> GridToWorld(cc[1]) + co[2],
                              speed |-> clipySpeed,
                              ox |-> 0, oz |-> 0, nx |-> 0, nz |-> 0,
                              checked |-> FALSE, hit |-> FALSE],
                   player |-> [x |-> GridToWorld(pc[2]),
                               z |-> GridToWorld(pc[1])],
                   draw |-> 0, ticks |-> 0]

\* the body of the loop of ClipyManager.update for this pursuer
E_Update ==
    /\ mv.ticks < MaxClipyTicks
    /\ \E dt \in 1..MaxDelta, draw \in RandomDraws :
          mv' = [mv EXCEPT
                   !.clipy = Clipy_move(mv.clipy, mv.player.x, mv.player.z,
                                        dt, draw),
                   !.draw = draw, !.ticks = @ + 1]
    /\ UNCHANGED <<pm, am, tm, mm, gm, sched, hist>>

NextClipy == E_Update

SpecClipy == InitClipy /\ [][NextClipy]_vars

(***************************************************************************)
(* SpecCollide: the two wall tests as functions of a position (x, y, z), a *)
(* radius and a wall: the per-wall test inside Maze.checkWallCollision and *)
(* CollisionDetection.sphereAABBCollision2D on the wall's corners.         *)
(***************************************************************************)
\* positions are taken from the cells of rows and columns 0..CollideCells,
\* walls from the whole maze
CollideCells == 2
Walls == {c \in (0..10) \X (0..10) : mazeLayout[c[1] + 1][c[2] + 1] = 1}
\* wall.position.set(x, 1.5, z) and BoxGeometry(cellSize, 3, cellSize)
wallHeight == 30
wallPosition(wall) ==
    [x |-> GridToWorld(wall[2]), y |-> Tenths(wallHeight) \div 2,
     z |-> GridToWorld(wall[1])]
wallSize == [x |-> cellSize, y |-> Tenths(wallHeight), z |-> cellSize]
wallMin(wall) ==
    [x |-> wallPosition(wall).x - wallSize.x \div 2,
     y |-> wallPosition(wall).y - wallSize.y \div 2,
     z |-> wallPosition(wall).z - wallSize.z \div 2]
wallMax(wall) ==
    [x |-> wallPosition(wall).x + wallSize.x \div 2,
     y |-> wallPosition(wall).y + wallSize.y \div 2,
     z |-> wallPosition(wall).z + wallSize.z \div 2]

\* sphereAABBCollision2D with the box's faces counted as part of the box
sphereAABBCollision2D_closed(spherePosition, sphereRadius, boxMin, boxMax) ==
    /\ spherePosition.x + sphereRadius >= boxMin.x
    /\ spherePosition.x - sphereRadius <= boxMax.x
    /\ spherePosition.z + sphereRadius >= boxMin.z
    /\ spherePosition.z - sphereRadius <= boxMax.z

\* CollisionDetection.sphereAABBCollision2D
sphereAABBCollision2D(spherePosition, sphereRadius, boxMin, boxMax) ==
    /\ spherePosition.x + sphereRadius > boxMin.x
    /\ spherePosition.x - sphereRadius < boxMax.x
    /\ spherePosition.z + sphereRadius > boxMin.z
    /\ spherePosition.z - sphereRadius < boxMax.z

\* the body of the loop of Maze.checkWallCollision for one wall
Maze_wallTest(position, radius, wall) ==
    LET lo == [x |-> wallPosition(wall).x - wallSize.x \div 2,
               y |-> wallPosition(wall).y - wallSize.y \div 2,
               z |-> wallPosition(wall).z - wallSize.z \div 2]
        hi == [x |-> wallPosition(wall).x + wallSize.x \div 2,
               y |-> wallPosition(wall).y + wallSize.y \div 2,
               z |-> wallPosition(wall).z + wallSize.z \div 2]
    IN  /\ position.x + radius > lo.x
        /\ position.x - radius < hi.x
        /\ position.z + radius > lo.z
        /\ position.z - radius < hi.z

\* Maze.checkWallCollision as the loop over this.walls
Maze_checkWallCollision(position, radius) ==
    \E wall \in Walls : Maze_wallTest(position, radius, wall)

\* the four results for one position, radius and wall: the per-wall test,
\* sphereAABBCollision2D on the wall's corners, checkWallCollision, and
\* sphereAABBCollision2D over all walls
CollideResults(position, radius, wall) ==
    [perWall |-> Maze_wallTest(position, radius, wall),
     aabb |-> sphereAABBCollision2D(position, radius,
                                    wallMin(wall), wallMax(wall)),
     any |-> Maze_checkWallCollision(position, radius),
     anyAabb |-> \E w \in Walls :
                     sphereAABBCollision2D(position, radius,
                                           wallMin(w), wallMax(w))]

\* heights: on the floor, the player's eye height, above the walls
CollideHeights == {0, Tenths(15), Tenths(wallHeight) + 1}
CollideRadii == {Player_radius, Tenths(monsterRadius)}

InitCollide ==
    /\ pm = InitPhaseManager
    /\ am = InitAudioManager
    /\ sched = InitSched
    /\ hist = InitHist
    /\ InitIdle
    /\ \E c \in (0..CollideCells) \X (0..CollideCells),
          o \in MonsterOffsets \X MonsterOffsets,
          radius \in CollideRadii :
          mv = [position |-> [x |-> GridToWorld(c[2]) + o[1],
                              y |-> 0,
                              z |-> GridToWorld(c[1]) + o[2]],
                radius |-> radius, wall |-> <<0, 0>>,
                tested |-> FALSE, moved |-> FALSE,
                results |-> CollideResults(
                                [x |-> 0, y |-> 0, z |-> 0], 0, <<0, 0>>),
                first |-> CollideResults(
                              [x |-> 0, y |-> 0, z |-> 0], 0, <<0, 0>>)]

\* both tests for one wall, at the height the position has
CO_Test ==
    /\ ~mv.tested
    /\ \E wall \in Walls :
          LET r == CollideResults(mv.position, mv.radius, wall)
          IN  mv' = [mv EXCEPT !.wall = wall, !.tested = TRUE,
                               !.results = r, !.first = r]
    /\ UNCHANGED <<pm, am, tm, mm, gm, sched, hist>>

\* the same tests with the position at another height
CO_ChangeHeight ==
    /\ mv.tested
    /\ \E y \in CollideHeights \ {mv.position.y} :
          LET position == [mv.position EXCEPT !.y = y]
          IN  mv' = [mv EXCEPT
                       !.position = position, !.moved = TRUE,
                       !.results = CollideResults(position, mv.radius,
                                                  mv.wall)]
    /\ UNCHANGED <<pm, am, tm, mm, gm, sched, hist>>

NextCollide == CO_Test \/ CO_ChangeHeight

SpecCollide == InitCollide /\ [][NextCollide]_vars

(***************************************************************************)
(* Properties.                                                             *)
(***************************************************************************)
\* C1 (SpecPhase): after any sequence of addPoints, subtractPoints, setScore,
\* survival exits, resetScore and reset with non-negative arguments the score
\* stays within 0..maxScore (420).
C1_ScoreWithinBounds == pm.score >= 0 /\ pm.score <= maxScore

\* the survival bonus was awarded at the ceiling
C1_BonusAtCeiling == pm.score = maxScore /\ hist.exitBonus = 1

\* C2 (Spec): whenever an operation has returned, stage = floor(score/50) + 1.
C2_StageTracksScore == pm.stage = (pm.score \div StageInterval) + 1

\* C3 (SpecPhase): within one activation of the survival phase the bonus, the
\* switch to the base track and the (false, 0) notification each happen at
\* most once, and exactly once as soon as the phase is no longer active,
\* whichever of expiry, track end, direct exit or reset came first and
\* whatever follows.
C3_SingleExit ==
    /\ hist.exitBonus <= 1
    /\ hist.exitMusic <= 1
    /\ hist.exitNotify <= 1
    /\ (hist.activated /\ ~pm.survivalPhaseActive) =>
           (hist.exitBonus = 1 /\ hist.exitMusic = 1 /\ hist.exitNotify = 1)

\* the phase has been left and its track, still attached, has ended as well
C3_ExitedAndTrackEnded ==
    /\ hist.activated
    /\ ~pm.survivalPhaseActive
    /\ hist.exitBonus = 1
    /\ am.ended
    /\ am.onended

\* C4 (Spec), as stated: when resetGame(true) returns there are 42 tokens,
\* score 0, stage 1, 3 pursuers, no survival phase and no portal.
C4_ResetComplete ==
    hist.event = "resetFull" =>
        /\ tokensLength(World) = totalTokenCount
        /\ pm.score = 0
        /\ pm.stage = 1
        /\ mm.count = InitialMonsterCount
        /\ ~pm.survivalPhaseActive
        /\ ~gm.portal

\* C4 (Spec), amended: the same, with the pursuer count 3 once the pursuer
\* model load has settled and 0 while it is still pending.
C4_ResetCompleteLoaded ==
    hist.event = "resetFull" =>
        /\ tokensLength(World) = totalTokenCount
        /\ pm.score = 0
        /\ pm.stage = 1
        /\ mm.count = IF mm.loadPending THEN 0 ELSE InitialMonsterCount
        /\ ~pm.survivalPhaseActive
        /\ ~gm.portal

\* a full reset that has just ended an active survival phase, pursuers loaded
C4_ResetFromSurvival ==
    /\ hist.event = "resetFull"
    /\ hist.exitBonus = 1
    /\ sched.latchTimers = <<LatchUnits>>
    /\ ~mm.loadPending

\* C5 (Spec): completion is raised only in a frame with the all-collected
\* flag set, a portal, no token left and the player closer to the portal
\* than portalRadius; gameCompleted is set by nothing else.
C5_CompletionOnlyAtPortal ==
    /\ hist.event = "completed" =>
           /\ gm.allTokensCollected
           /\ gm.portal
           /\ tokensLength(World) = 0
           /\ hist.portalDist > 0
           /\ hist.portalDist < portalRadius
    /\ gm.gameCompleted =>
           (hist.completions = 1 /\ gm.allTokensCollected /\ gm.portal)

C5_Completed == hist.event = "completed"

\* C6 (Spec): after completion, further frames with any pause, resume or
\* toggle in between raise no second completion before a reset.
C6_CompletionOnce == hist.completions <= 1

\* a frame has run on a completed game that was resumed
C6_FrameAfterCompletion ==
    gm.gameCompleted /\ ~gm.isPaused /\ hist.event = "skipped"

\* C7 (Spec): a frame with a pursuer within catch distance plays the catch
\* cue once and requests the error dialog once.
C7_CaughtOnce ==
    hist.catchers > 0 => (hist.catchCue = 1 /\ hist.dialogs = 1)

\* C8 (Spec): from a caught event until the next reset the game is paused
\* and the score is 0.
C8_CaughtStaysPaused == hist.caughtPending => (gm.isPaused /\ pm.score = 0)

\* C9 (Spec): in impossible mode the forced catch happens between 3 and 8
\* seconds after construction, so once more than 8 seconds have passed on a
\* game that is not completed it has happened.
C9_ForcedCatch ==
    /\ hist.event = "forced" =>
           (sched.uptime >= ImpossibleMinUnits
                /\ sched.uptime <= ImpossibleMaxUnits)
    /\ (gm.impossibleMode /\ ~gm.gameCompleted
            /\ sched.uptime > ImpossibleMaxUnits) => hist.forced

\* C10 (SpecMove): outside impossible mode the player (radius 0.4) and
\* every pursuer (radius 0.5) are never at a position for which
\* checkWallCollision is true, spawn and reset positions included.
C10_NoWallOverlap ==
    /\ ~checkWallCollision(mv.player.x, mv.player.z, Player_radius)
    /\ \A i \in 1..Len(mv.monsters) :
           ~checkWallCollision(mv.monsters[i].x, mv.monsters[i].z,
                               Tenths(monsterRadius))

\* the player's move was reverted in a frame in which a pursuer, blocked on
\* its full move, slid along X
C10_RevertedAndSlid ==
    /\ mv.player.reverted
    /\ \E i \in 1..Len(mv.monsters) : mv.monsters[i].how = "x"

\* C11 (SpecPlayer): a Player.update whose advanced position collides with a
\* wall leaves X and Z as they were before the tick, both of them, and keeps
\* the tick's rotation and sprint-energy changes.
C11_FullRevert ==
    [][(mv'.ticks = mv.ticks + 1 /\ mv'.player.reverted) =>
          /\ mv'.player.x = mv.player.x
          /\ mv'.player.z = mv.player.z
          /\ mv'.player =
                 [Player_sprint(Player_turn(mv.player, mv'.keys, mv'.dt),
                                mv'.keys, mv'.dt) EXCEPT !.reverted = TRUE]]_vars

\* a reverted tick in which the player turned left and drained sprint energy
C11_RevertedTurnedSprinting ==
    /\ mv.player.reverted
    /\ "a" \in mv.keys
    /\ mv.player.isSprinting
    /\ mv.player.sprintEnergy < SprintFull

\* C12 (Spec): between two resets every removed token is awarded once, so the
\* number of 10-point awards equals the number of tokens removed, and it is
\* at most 42.
C12_AwardsMatchRemovals ==
    hist.awards = hist.removed /\ hist.awards <= totalTokenCount

\* C13 (Spec): between two resets the all-collected callback runs exactly
\* once: at most once, in the call that removes the last remaining token,
\* and never without a token having been removed.
C13_AllCollectedOnce ==
    /\ hist.allCollected <= 1
    /\ (tokensLength(World) = 0 /\ hist.removed > 0) => hist.allCollected >= 1
    /\ hist.allCollected >= 1 => hist.removed > 0

\* C14 (Spec): an update() call made while isPaused or gameCompleted is true
\* changes no simulation state: score, stage, survival phase, tokens,
\* pursuers, portal, pause and completed flags, music and pending timeouts
\* are as before; only the next frame is scheduled.
C14_SkippedFrameChangesNothing ==
    [][(hist'.event \in {"frame", "skipped", "completed"}
            /\ (gm.isPaused \/ gm.gameCompleted)) =>
          /\ hist'.event = "skipped"
          /\ pm' = pm /\ am' = am /\ tm' = tm /\ mm' = mm /\ gm' = gm
          /\ sched' = [sched EXCEPT !.frameDue = FALSE]]_vars

\* a frame was skipped on a paused game whose survival countdown had run out
C14_SkippedAtExpiry ==
    /\ hist.event = "skipped"
    /\ gm.isPaused
    /\ ~gm.gameCompleted
    /\ pm.survivalPhaseActive
    /\ remainingTime(World) = 0

\* C15 (Spec): once resetGame() has returned, no callback armed before it
\* (dead-man's-switch timeout, track-end callback, latch-release timeout)
\* raises a caught event or changes score, phase or any other game state.
C15_NoStaleCallback == ~hist.staleActed

\* C16 (Spec): frames run while the pursuer load is pending raise no caught
\* event, frames run while the token load is pending raise no all-collected
\* and no completion event, and when a load has resolved there are exactly 3
\* pursuers, respectively exactly 42 tokens.
C16_LoadsTolerated ==
    /\ (mm.loadPending /\ hist.event \in {"frame", "completed"}) =>
           (hist.catchers = 0 /\ hist.dialogs = 0)
    /\ tm.loadPending => (hist.allCollected = 0 /\ hist.completions = 0)
    /\ hist.event = "monsterLoad" => mm.count = InitialMonsterCount
    /\ hist.event = "tokenLoad" => tokensLength(World) = totalTokenCount

\* C17 (Spec): between two resets the survival phase is started at most once,
\* and it has been started exactly when the stage has left 1, which happens
\* in the addPoints call that first brings the score to 50; no later score
\* or stage change of the round starts it again.
C17_PhaseStartsOnce ==
    /\ hist.phaseStarts <= 1
    /\ (hist.phaseStarts = 1) <=> (pm.stage >= 2)

\* the phase of this round is over and the stage has moved on past 2
C17_StageThreeAfterPhase ==
    /\ hist.phaseStarts = 1
    /\ pm.stage >= 3
    /\ ~pm.survivalPhaseActive
    /\ hist.exitBonus = 1

\* C18 (Spec): right after the frame that enters the survival phase there are
\* more than 3 pursuers, sprint is unlocked, and the phase is active with the
\* full 84-second countdown.
C18_EntryEffects ==
    (hist.event = "frame" /\ pm.survivalPhaseActive
         /\ pm.survivalElapsed = 0) =>
        /\ mm.count > InitialMonsterCount
        /\ gm.sprintAvailable
        /\ remainingTime(World) = SurvivalUnits

C20_CountdownExits ==
    /\ []((hist.event \in {"frame", "completed"}) =>
             ~(pm.survivalPhaseActive /\ pm.survivalElapsed >= SurvivalUnits))
    /\ [][(hist'.event = "clock" /\ pm.survivalPhaseActive) =>
             /\ pm'.survivalPhaseActive
             /\ pm'.survivalElapsed <= SurvivalUnits
             /\ \/ pm'.survivalElapsed > pm.survivalElapsed
                \/ pm.survivalElapsed = SurvivalUnits]_vars

\* the countdown ran out in a frame of a phase part of which was spent paused
C20_ExpiredAfterPause ==
    /\ hist.exited
    /\ hist.event = "frame"
    /\ hist.catchers = 0
    /\ hist.pausedInPhase

\* C21 (SpecPhase): when resetScore() or reset() has returned, from any state
\* including an active survival phase, the score is 0, the stage is 1 and no
\* survival phase is active.
C21_ResetZeroes ==
    hist.event \in {"resetScore", "phaseReset"} =>
        /\ pm.score = 0
        /\ pm.stage = 1
        /\ ~pm.survivalPhaseActive

\* C22 (SpecClock): the sprint energy stays within 0..100 through frames of
\* any non-negative deltaTime, enableSprint and resets; a frame lowers it only
\* if sprint is unlocked, shift is held and energy was left, and raises it
\* only if sprint is unlocked and shift is not held.
C22_SprintEnergy ==
    /\ [](mv.player.sprintEnergy >= 0 /\ mv.player.sprintEnergy <= SprintFull)
    /\ [][mv'.event = "frame" =>
             /\ mv'.player.sprintEnergy < mv.player.sprintEnergy =>
                    /\ mv.player.sprintAvailable
                    /\ "shift" \in mv'.keys
                    /\ mv.player.sprintEnergy > 0
             /\ mv'.player.sprintEnergy > mv.player.sprintEnergy =>
                    /\ mv.player.sprintAvailable
                    /\ "shift" \notin mv'.keys]_vars

\* a long frame with shift held has used up the energy that was left
C22_DrainedToZero ==
    /\ mv.player.sprintEnergy = 0
    /\ mv.player.isSprinting
    /\ mv.dt = MaxElapsed
    /\ mv.ticks = MaxClockTicks

\* C25 (SpecClock): after any sequence of frames with non-negative deltaTime,
\* the first frame after a pause included, the player is inside an open cell
\* of the 11x11 grid: not in or beyond a wall cell, not outside the outer ring.
C25_StaysInOpenCell == InOpenCell(mv.player.x, mv.player.z)

\* C23 (SpecPursuer): outside impossible mode a strict pursuer's position
\* after a frame is the first candidate that collides with no wall among
\* old + movement, old + X part of the movement, old + Z part of the
\* movement, and is the old position when all three collide.
C23_FirstFreeCandidate ==
    [][mv'.ticks = mv.ticks + 1 =>
          LET o == mv.monster
              movement == Monster_movement(o, mv.player.x, mv.player.z, mv'.dt)
              Free(x, z) == ~checkWallCollision(x, z, Tenths(monsterRadius))
              now == <<mv'.monster.x, mv'.monster.z>>
          IN  IF Free(o.x + movement[1], o.z + movement[2])
              THEN now = <<o.x + movement[1], o.z + movement[2]>>
              ELSE IF Free(o.x + movement[1], o.z)
              THEN now = <<o.x + movement[1], o.z>>
              ELSE IF Free(o.x, o.z + movement[2])
              THEN now = <<o.x, o.z + movement[2]>>
              ELSE now = <<o.x, o.z>>]_vars

\* a pursuer whose three candidates all collided: it has a movement on both
\* axes and is where it was
C23_Stuck ==
    /\ mv.monster.how = "stuck"
    /\ mv.monster.x # mv.player.x
    /\ mv.monster.z # mv.player.z

\* C24 (SpecPursuer): a strict pursuer raises the caught event in a frame
\* exactly if, after its movement of that frame is resolved, its distance to
\* the player is below playerRadius + pursuerRadius (0.9).
C24_CaughtIffNearAfterMove ==
    mv.ticks > 0 =>
        (mv.monster.caught <=>
             DistSq(mv.monster, mv.player.x, mv.player.z)
                 < Tenths(CatchDistance) * Tenths(CatchDistance))

\* C26 (Spec): in every reachable state at most 42 tokens are live, so the
\* collected count 42 - live is not negative, also when resetGame() runs
\* before the token model load of the constructor has resolved.
C26_AtMostAllTokens ==
    /\ tokensLength(World) <= totalTokenCount
    /\ totalTokenCount - tokensLength(World) >= 0

\* C27 (Spec): in a frame in which a caught event is raised nothing else of
\* the frame takes effect afterwards: no token is removed, no points are
\* awarded (the score stays at the 0 the catch sets) and no completion is
\* raised, so no frame ends both caught and completed.
C27_CaughtEndsFrame ==
    [][(hist'.event \in {"frame", "completed"} /\ hist'.dialogs > 0) =>
          /\ tm' = tm
          /\ pm'.score = 0
          /\ hist'.event = "frame"
          /\ ~gm'.gameCompleted]_vars

\* the names of seq, which has no name twice, appear in the order of ref
InOrder(seq, ref) ==
    \A i, j \in 1..Len(seq) :
        i < j => \E k, l \in 1..Len(ref) :
                     k < l /\ ref[k] = seq[i] /\ ref[l] = seq[j]

\* C28 (Spec), as stated: an executed frame runs its blocks in the order
\* player update, pursuer update, token pickup check, survival-phase clock,
\* exit-portal check, render.
C28_SurvivalBeforePortal ==
    InOrder(hist.order,
            <<"player", "pursuers", "tokens", "survival", "portal", "render">>)

\* C28 (Spec), amended: an executed frame runs its blocks in the order player
\* update, pursuer update, token pickup check (whose awards advance score
\* and stage), exit-portal check, survival-phase clock, render.
C28_PortalBeforeSurvival ==
    /\ InOrder(hist.order,
               <<"player", "pursuers", "tokens", "portal", "survival", "render">>)
    /\ hist.event \in {"frame", "completed"} =>
           /\ Len(hist.order) >= 4
           /\ hist.order[1] = "player"
           /\ hist.order[Len(hist.order)] = "render"

\* a frame that ran the portal block and the survival countdown
C28_BothBlocksRan ==
    hist.order =
        <<"player", "pursuers", "tokens", "portal", "survival", "render">>

\* C29 (Spec): a frame that reaches the portal block with the all-collected
\* flag set and a portal but with tokens in the list raises no completion,
\* clears the flag and removes the portal; the flag is set again only by a
\* pickup that empties the list (the all-collected event), and a completion
\* is raised only with the flag set, so none follows until that event.
C29_PortalRetracted ==
    [][/\ (/\ hist'.event \in {"frame", "completed"}
           /\ gm.allTokensCollected /\ gm.portal /\ gm.portalPosition
           /\ tokensLength([tm |-> tm']) > 0) =>
              /\ hist'.event = "frame"
              /\ ~gm'.gameCompleted
              /\ ~gm'.allTokensCollected
              /\ ~gm'.portal
       /\ (~gm.allTokensCollected /\ gm'.allTokensCollected) =>
              (tokensLength([tm |-> tm]) > 0 /\ tokensLength([tm |-> tm']) = 0)
       /\ hist'.event = "completed" =>
              /\ gm'.allTokensCollected
              /\ \/ gm.allTokensCollected
                 \/ (tokensLength([tm |-> tm]) > 0
                        /\ tokensLength([tm |-> tm']) = 0)]_vars

\* a frame has just retracted the portal: the block ran, tokens are there,
\* flag and portal are gone
C29_JustRetracted ==
    /\ hist.event = "frame"
    /\ hist.portalDist > 0
    /\ tokensLength(World) > 0
    /\ ~gm.allTokensCollected
    /\ ~gm.portal

\* C30 (Spec): when the dead-man's switch fires in impossible mode on a game
\* that is not completed, every existing pursuer is first put on the
\* player's position and then the caught event is raised, once.
C30_SwitchTeleportsThenCatches ==
    (hist.event \in {"forced", "switchIdle"}
         /\ gm.impossibleMode /\ ~gm.gameCompleted) =>
        /\ hist.order = <<"teleport", "caught">>
        /\ hist.teleported = mm.count
        /\ hist.dialogs = 1
        /\ hist.caughtPending

\* C31 (Spec): in impossible mode every round that is not completed, started
\* by construction or by resetGame, ends with a forced catch within 8
\* seconds: until the forced catch of the round has happened, the timeout
\* that raises it is pending, with at most 8 seconds to run.
C31_EveryRoundForced ==
    (gm.impossibleMode /\ ~gm.gameCompleted /\ ~hist.roundForced) =>
        (sched.impossibleTimeout >= 0
             /\ sched.impossibleTimeout <= ImpossibleMaxUnits)

\* C32 (SpecMove): once the pursuers exist, every original pursuer's speed is
\* the one the difficulty selects (Easy 2.0, Normal 1.5, Hard 2.5).
C32_SpeedFollowsDifficulty ==
    \A i \in 1..Len(mv.monsters) :
        mv.monsters[i].speed = difficultySpeed(mv.difficulty)

\* C33 (Spec): while the game is paused and is neither resumed nor reset,
\* no callback that fires (track end, timeouts, loads) changes the score,
\* the stage or the survival phase's active flag.
C33_PausedFreezesProgress ==
    [][(gm.isPaused /\ gm'.isPaused
            /\ hist'.event \notin {"reset", "resetFull"}) =>
           /\ pm'.score = pm.score
           /\ pm'.stage = pm.stage
           /\ pm'.survivalPhaseActive = pm.survivalPhaseActive]_vars

\* C34 (Spec): at most one background-music source is playing, and no source
\* is ever stopped with its end callback still attached: replacing the
\* survival track (phase exit, reset) cannot invoke the music-end callback.
C34_OneTrackNoOrphan ==
    /\ am.playing <= 1
    /\ am.orphans = 0

\* the survival track, playing with its end callback, has just been replaced
\* by the base track
C34_SurvivalTrackReplaced ==
    /\ hist.replaced
    /\ am.musicSource = "background"
    /\ am.playing = 1

\* an alert raised in the last frame was allowed: within the radius, at
\* least gapMs after the pursuer's previous alert, and stamped
AlertAllowed(p, radius, gapMs) ==
    p.alerted =>
        /\ p.dist < radius
        /\ p.prevAlert >= 0 =>
               (p.lastAlert - p.prevAlert) * TimeUnitMs >= gapMs
        /\ p.lastSoundTime = p.lastAlert

\* C35 (SpecAlert): a strict pursuer's proximity alert is raised in a frame
\* only if its distance is below 5 and at least 3 s have passed since its
\* previous alert, and the alert time is then stamped, so two alerts of one
\* pursuer are never less than 3 s apart (erratic pursuer: 8 and 2 s).
C35_AlertsThrottled ==
    /\ \A i \in 1..Len(mv.monsters) :
           AlertAllowed(mv.monsters[i], Monster_alertRadius,
                        Monster_alertGapMs)
    /\ \A i \in 1..Len(mv.clibies) :
           AlertAllowed(mv.clibies[i], Clipy_alertRadius, Clipy_alertGapMs)

\* a strict pursuer has just raised its second alert while the other one,
\* also in range, stays throttled
C35_SecondAlert ==
    /\ mv.monsters[1].alerted
    /\ mv.monsters[1].prevAlert >= 0
    /\ ~mv.monsters[2].alerted
    /\ mv.monsters[2].dist < Monster_alertRadius

C37_RotationNotified ==
    [][mv'.player.rotation # mv.player.rotation =>
           mv'.player.notifiedRotation = mv'.player.rotation]_vars

\* C38 (SpecMove): a movement-joystick event changes only the forward axis
\* of the player's joystick input and a rotation-joystick event only the
\* rotation axis, so no step changes one axis and also overwrites the other.
C38_JoysticksIndependent ==
    [][/\ mv'.player.mobileForward # mv.player.mobileForward =>
              mv'.player.mobileRotation = mv.player.mobileRotation
       /\ mv'.player.mobileRotation # mv.player.mobileRotation =>
              mv'.player.mobileForward = mv.player.mobileForward]_vars

\* C39 (SpecCollide): for every position, radius and wall the per-wall test
\* of Maze.checkWallCollision gives the result of sphereAABBCollision2D on
\* the wall's min and max corners, neither depends on position.y, and
\* checkWallCollision is sphereAABBCollision2D for some wall.
C39_WallTestsAgree ==
    mv.tested =>
        /\ mv.results.perWall = mv.results.aabb
        /\ mv.results.any = mv.results.anyAabb
        /\ mv.results = mv.first
        /\ mv.results.any =
               checkWallCollision(mv.position.x, mv.position.z, mv.radius)

\* a position that touches the tested wall without overlapping it, tested
\* again above the height of the walls
C39_TouchingAboveWalls ==
    /\ mv.tested
    /\ mv.moved
    /\ mv.position.y > wallMax(mv.wall).y
    /\ ~mv.results.aabb
    /\ mv.position.x + mv.radius = wallMin(mv.wall).x
    /\ mv.position.z > wallMin(mv.wall).z
    /\ mv.position.z < wallMax(mv.wall).z

\* C40 (Spec): whenever completion is raised, the score afterwards, which
\* the completion message shows, is maxScore (420), whatever it was before,
\* and it stays so for as long as the game is completed.
C40_CompletionScoreIsMax ==
    (hist.event = "completed" \/ gm.gameCompleted) => pm.score = maxScore

\* completion raised on a score below maxScore
C40_CompletedFromBelowMax ==
    /\ hist.event = "completed"
    /\ hist.completedFrom < maxScore

====
